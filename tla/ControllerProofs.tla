-------------------------- MODULE ControllerProofs --------------------------
(***************************************************************************)
(* Theorems about Controller, for all resources, hostnames, certificates,  *)
(* stacks, settings, delays and numbers of changes and failures: its       *)
(* types, ExclusiveHostnames, GracePeriod, Aggregated and StillServed.     *)
(***************************************************************************)
EXTENDS Controller, MatchingProofs

Loaded == {"match", "apply", "publish"}

(* A load balancer with a stack, or that will get one, has settings.       *)
Configured(lb) ==
  ~lb.clusterLocal =>
    /\ lb.class \in Class /\ lb.sg \in SecurityGroup
    /\ lb.waf \in ACL /\ lb.ssl \in Policy
    /\ ClusterLocalDomain \notin DOMAIN lb.ingresses

(* What a load balancer remembers of the stack it was made from.           *)
FromSnap(lb) ==
  lb.stack # None =>
    /\ lb.stack \in DOMAIN snap
    /\ lb.owner = snap[lb.stack].owner
    /\ DOMAIN lb.existing = DOMAIN snap[lb.stack].certs \cap available
    /\ \A c \in DOMAIN lb.existing : lb.existing[c] = snap[lb.stack].certs[c]

UserType ==
  /\ PartialFunction(kube, Ident, Resources)
  /\ hostname \in [Ident -> StackName \cup {None}]
  /\ alarms \in Alarms
  /\ certs \subseteq Cert

BudgetType == changes \in 0 .. MaxChanges /\ faults \in 0 .. MaxFaults

CloudType ==
  /\ IsSnapshot(stacks)
  /\ IsSnapshot(previous)
  /\ DOMAIN previous = {s \in DOMAIN stacks : stacks[s].status = "updating"}
  /\ \A s \in DOMAIN previous : IsComplete(previous[s])
  /\ elb \in [StackName -> {"none", "provisioning", "active"}]
  /\ young \in [StackName -> 0 .. MinAge]

(* The cycle has read or made nothing but what its stage calls for.        *)
StageInv ==
  /\ pc \notin Loaded => model = <<>>
  /\ pc # "match" => todo = {}
  /\ pc \in {"sleep", "resources", "stacks"} => snap = EmptyMap
  /\ pc = "apply" => at \in 1 .. Len(model) + 1
  /\ pc = "publish" => at \in DOMAIN model /\ queue # {}
  /\ pc \notin {"apply", "publish"} => at = 0
  /\ pc \in Working => view.alarms \in Alarms

CycleType ==
  /\ TypeOK /\ StageInv
  /\ pc \in Reading \cup Working \cup {"sleep"}
  /\ firstRun \in BOOLEAN /\ rgSupport \in BOOLEAN
  /\ view \in [hostname : [Ident -> StackName \cup {None}],
               active : SUBSET StackName, alarms : Alarms \cup {None}]
  /\ queue \subseteq Ident

DistinctStacks ==
  \A i, j \in DOMAIN model :
    model[i].stack # None /\ model[i].stack = model[j].stack => i = j

ModelInv ==
  /\ IInv /\ DistinctStacks
  /\ \A i \in DOMAIN model : Configured(model[i]) /\ FromSnap(model[i])

TypeInv ==
  /\ UserType /\ BudgetType /\ CloudType /\ CycleType /\ ModelInv
  /\ idle \in BOOLEAN

-----------------------------------------------------------------------------
(* Stacks *)

(* x and y differ in their status and in the time left for certificates.   *)
SameStack(x, y) ==
  /\ x.owner = y.owner /\ x.class = y.class /\ x.sg = y.sg
  /\ x.waf = y.waf /\ x.ssl = y.ssl /\ x.alarms = y.alarms

LEMMA ChangedStatus ==
  ASSUME NEW x, IsStack(x), NEW to \in Status,
         NEW y, y = [x EXCEPT !.status = to]
  PROVE  /\ IsStack(y) /\ SameStack(x, y)
         /\ y.status = to /\ y.certs = x.certs
BY DEF IsStack, SameStack

LEMMA OlderCertificates ==
  ASSUME NEW D, NEW f \in [D -> Expiry]
  PROVE  /\ Older(f) \in [D -> Expiry]
         /\ \A c \in D : Older(f)[c] = Later(f[c])
BY ConstantsAssumption DEF Older, Later, Expiry, NoExpiry

LEMMA AgedStack ==
  ASSUME NEW x, IsStack(x), NEW y, y = [x EXCEPT !.certs = Older(@)]
  PROVE  /\ IsStack(y) /\ SameStack(x, y) /\ y.status = x.status
         /\ DOMAIN y.certs = DOMAIN x.certs
         /\ \A c \in DOMAIN x.certs : y.certs[c] = Later(x.certs[c])
         /\ y.certs = Older(x.certs)
<1>1. x.certs \in [DOMAIN x.certs -> Expiry] /\ DOMAIN x.certs \subseteq Cert
  BY DEF IsStack
<1> DEFINE o == Older(x.certs)
<1>2. /\ o \in [DOMAIN x.certs -> Expiry]
      /\ \A c \in DOMAIN x.certs : o[c] = Later(x.certs[c])
  BY <1>1, OlderCertificates
<1>3. y = [x EXCEPT !.certs = o]
  OBVIOUS
<1> HIDE DEF o
<1>4. y.certs = o /\ DOMAIN o = DOMAIN x.certs
  BY <1>2, <1>3 DEF IsStack
<1>5. IsStack(y) /\ SameStack(x, y) /\ y.status = x.status
  BY <1>1, <1>2, <1>3, <1>4 DEF IsStack, SameStack
<1> QED
  BY <1>2, <1>4, <1>5 DEF o

LEMMA AgedSnapshot ==
  ASSUME NEW f, IsSnapshot(f)
  PROVE  /\ IsSnapshot(Aged(f)) /\ DOMAIN Aged(f) = DOMAIN f
         /\ \A s \in DOMAIN f :
              /\ SameStack(f[s], Aged(f)[s]) /\ Aged(f)[s].status = f[s].status
              /\ DOMAIN Aged(f)[s].certs = DOMAIN f[s].certs
              /\ \A c \in DOMAIN f[s].certs :
                   Aged(f)[s].certs[c] = Later(f[s].certs[c])
              /\ Aged(f)[s].certs = Older(f[s].certs)
BY AgedStack DEF IsSnapshot, Aged

(* What CreateStack and UpdateStack write.                                 *)
LEMMA WrittenCertificates ==
  ASSUME NEW lb, IsLB(lb), Configured(lb), ~lb.clusterLocal
  PROVE  /\ CertificateARNs(lb) \in [DOMAIN CertificateARNs(lb) -> Expiry]
         /\ DOMAIN CertificateARNs(lb) \subseteq Cert
<1>1. DOMAIN lb.ingresses \subseteq Cert /\ DOMAIN lb.existing \subseteq Cert
  BY DEF IsLB, Configured
<1>2. \A c \in DOMAIN lb.existing : lb.existing[c] \in Expiry
  BY DEF IsLB
<1> QED
  BY <1>1, <1>2, ConstantsAssumption
  DEF CertificateARNs, Needed, Expiry, NoExpiry

LEMMA OwnersType ==
  ASSUME NEW lb, IsLB(lb), NEW owner \in Owners(lb)
  PROVE  owner \in Name \cup {None}
<1>1. Members(lb) \subseteq Ident
  BY DEF IsLB, Members
<1> QED
  BY <1>1, ConstantsAssumption DEF Owners

-----------------------------------------------------------------------------
(* What CloudFormation does by itself *)

LEMMA FaultBudget ==
  ASSUME BudgetType, NEW kind, Fault(kind)
  PROVE  BudgetType'
BY ControllerAssumption DEF BudgetType, Fault

CloudMoves ==
  /\ DOMAIN stacks' \subseteq DOMAIN stacks
  /\ DOMAIN previous' \subseteq DOMAIN previous
  /\ \A t \in DOMAIN previous' : previous'[t] = previous[t]
  /\ \A t \in DOMAIN stacks' :
       \/ /\ SameStack(stacks[t], stacks'[t])
          /\ stacks'[t].certs = stacks[t].certs
       \/ t \in DOMAIN previous /\ stacks'[t] = previous[t]
  /\ \A t \in DOMAIN stacks : IsComplete(stacks[t]) =>
       t \in DOMAIN stacks' /\ stacks'[t] = stacks[t]
  /\ \A t \in DOMAIN stacks' :
       stacks'[t].status \in {"creating", "updating"}
         => stacks[t].status = stacks'[t].status

(* There is nothing to return to for stack s any more.                     *)
Dropped(s) ==
  /\ DOMAIN previous' = DOMAIN previous \ {s}
  /\ \A n \in DOMAIN previous' : previous'[n] = previous[n]

LEMMA ProgressFacts ==
  ASSUME CloudType, NEW s, NEW from \in Status, NEW to \in Status,
         Progress(s, from, to), from # "complete", to # "updating"
  PROVE  /\ IsSnapshot(stacks') /\ DOMAIN stacks' = DOMAIN stacks
         /\ s \in DOMAIN stacks /\ s \in StackName
         /\ stacks[s].status = from /\ stacks'[s].status = to
         /\ SameStack(stacks[s], stacks'[s])
         /\ stacks'[s].certs = stacks[s].certs
         /\ \A t \in DOMAIN stacks \ {s} : stacks'[t] = stacks[t]
<1> DEFINE new == [stacks[s] EXCEPT !.status = to]
<1>1. /\ s \in DOMAIN stacks /\ stacks[s].status = from
      /\ stacks' = [stacks EXCEPT ![s] = new]
  BY DEF Progress
<1>2. IsStack(stacks[s]) /\ s \in StackName
  BY <1>1 DEF CloudType, IsSnapshot
<1>3. /\ IsStack(new) /\ SameStack(stacks[s], new)
      /\ new.status = to /\ new.certs = stacks[s].certs
  BY <1>2, ChangedStatus
<1> HIDE DEF new
<1>4. /\ DOMAIN stacks' = DOMAIN stacks /\ stacks'[s] = new
      /\ \A t \in DOMAIN stacks \ {s} : stacks'[t] = stacks[t]
  BY <1>1
<1>5. IsSnapshot(stacks')
  BY <1>3, <1>4 DEF CloudType, IsSnapshot
<1> QED
  BY <1>1, <1>2, <1>3, <1>4, <1>5

LEMMA ProgressMoves ==
  ASSUME CloudType, NEW s, NEW from \in Status, NEW to \in Status,
         Progress(s, from, to), from # "complete", to \notin {"creating", "updating"},
         Dropped(s)
  PROVE  CloudMoves
<1>1. /\ DOMAIN stacks' = DOMAIN stacks
      /\ stacks[s].status = from /\ stacks'[s].status = to
      /\ SameStack(stacks[s], stacks'[s])
      /\ stacks'[s].certs = stacks[s].certs
      /\ \A t \in DOMAIN stacks \ {s} : stacks'[t] = stacks[t]
  BY ProgressFacts
<1>2. \A x : SameStack(x, x)
  BY DEF SameStack
<1> QED
  BY <1>1, <1>2 DEF CloudMoves, IsComplete, Dropped

LEMMA ProgressType ==
  ASSUME CloudType, NEW s, NEW from \in Status, NEW to \in Status,
         Progress(s, from, to), from # "complete", to # "updating",
         Dropped(s),
         elb' \in [StackName -> {"none", "provisioning", "active"}]
  PROVE  CloudType'
<1>1. /\ IsSnapshot(stacks') /\ DOMAIN stacks' = DOMAIN stacks
      /\ stacks'[s].status = to
      /\ \A t \in DOMAIN stacks \ {s} : stacks'[t] = stacks[t]
  BY ProgressFacts
<1>2. young' = young
  BY DEF Progress
<1>3. /\ IsSnapshot(previous')
      /\ \A n \in DOMAIN previous' : IsComplete(previous'[n])
  BY DEF CloudType, IsSnapshot, Dropped
<1>4. DOMAIN previous' = {n \in DOMAIN stacks' : stacks'[n].status = "updating"}
  BY <1>1 DEF CloudType, Dropped
<1> QED
  BY <1>1, <1>2, <1>3, <1>4 DEF CloudType

LEMMA CloudSteps ==
  ASSUME CloudType, BudgetType,
         NEW s \in StackName, CloudProgress(s) \/ CloudFailure(s)
  PROVE  /\ CloudType' /\ BudgetType' /\ CloudMoves
         /\ UNCHANGED <<kubeVars, certs, cycleVars, pc, firstRun, rgSupport>>
         /\ idle' = FALSE
<1>0. /\ {"creating", "complete", "updating", "deleting", "delete_failed"}
           \subseteq Status
      /\ s \in DOMAIN previous <=> s \in DOMAIN stacks /\ stacks[s].status = "updating"
      /\ s \notin DOMAIN previous /\ UNCHANGED previous => Dropped(s)
  BY DEF Status, CloudType, Dropped
<1>1. ASSUME CreateCompletes(s) PROVE CloudType' /\ BudgetType' /\ CloudMoves
  <2>1. /\ Progress(s, "creating", "complete") /\ UNCHANGED budget
        /\ Dropped(s)
        /\ elb' \in [StackName -> {"none", "provisioning", "active"}]
    BY <1>0, <1>1 DEF CreateCompletes, Progress, CloudType
  <2> QED
    BY <1>0, <2>1, ProgressType, ProgressMoves DEF BudgetType, budget
<1>2. ASSUME CreateFails(s) PROVE CloudType' /\ BudgetType' /\ CloudMoves
  <2>1. /\ Progress(s, "creating", "deleting") /\ Fault("create")
        /\ Dropped(s)
        /\ elb' \in [StackName -> {"none", "provisioning", "active"}]
    BY <1>0, <1>2 DEF CreateFails, Progress, CloudType
  <2> QED
    BY <1>0, <2>1, ProgressType, ProgressMoves, FaultBudget
<1>3. ASSUME UpdateCompletes(s) PROVE CloudType' /\ BudgetType' /\ CloudMoves
  <2>1. /\ Progress(s, "updating", "complete") /\ UNCHANGED budget
        /\ Dropped(s)
        /\ elb' \in [StackName -> {"none", "provisioning", "active"}]
    BY <1>3 DEF UpdateCompletes, Settle, CloudType, Dropped
  <2> QED
    BY <1>0, <2>1, ProgressType, ProgressMoves DEF BudgetType, budget
<1>4. ASSUME DeleteFails(s) PROVE CloudType' /\ BudgetType' /\ CloudMoves
  <2>1. /\ Progress(s, "deleting", "delete_failed") /\ Fault("delete")
        /\ Dropped(s)
        /\ elb' \in [StackName -> {"none", "provisioning", "active"}]
    BY <1>0, <1>4 DEF DeleteFails, Progress, CloudType
  <2> QED
    BY <1>0, <2>1, ProgressType, ProgressMoves, FaultBudget
<1>5. ASSUME UpdateRollsBack(s) PROVE CloudType' /\ BudgetType' /\ CloudMoves
  <2>1. /\ s \in DOMAIN previous /\ s \in DOMAIN stacks
        /\ stacks' = [stacks EXCEPT ![s] = previous[s]]
        /\ previous' = [n \in DOMAIN previous \ {s} |-> previous[n]]
        /\ elb' = elb /\ young' = young /\ Fault("rollback")
    BY <1>0, <1>5 DEF UpdateRollsBack, Settle
  <2>2. /\ DOMAIN stacks' = DOMAIN stacks /\ stacks'[s] = previous[s]
        /\ \A t \in DOMAIN stacks \ {s} : stacks'[t] = stacks[t]
        /\ DOMAIN previous' = DOMAIN previous \ {s}
        /\ \A t \in DOMAIN previous' : previous'[t] = previous[t]
    BY <2>1
  <2>3. IsSnapshot(stacks') /\ IsSnapshot(previous')
    BY <2>1, <2>2 DEF CloudType, IsSnapshot
  <2>4. previous[s].status = "complete" /\ stacks[s].status = "updating"
    BY <2>1 DEF CloudType, IsComplete
  <2>5. CloudType'
    BY <2>1, <2>2, <2>3, <2>4 DEF CloudType
  <2>6. \A x : SameStack(x, x)
    BY DEF SameStack
  <2>7. CloudMoves
    BY <2>1, <2>2, <2>4, <2>6 DEF CloudMoves, IsComplete
  <2> QED
    BY <2>1, <2>5, <2>7, FaultBudget
<1>6. ASSUME DeleteCompletes(s) PROVE CloudType' /\ BudgetType' /\ CloudMoves
  <2>1. /\ s \in DOMAIN stacks /\ stacks[s].status = "deleting"
        /\ stacks' = [n \in DOMAIN stacks \ {s} |-> stacks[n]]
        /\ elb' = [elb EXCEPT ![s] = "none"]
        /\ previous' = previous /\ young' = young /\ UNCHANGED budget
    BY <1>6 DEF DeleteCompletes
  <2>2. CloudType'
    BY <2>1 DEF CloudType, IsSnapshot
  <2>3. \A x : SameStack(x, x)
    BY DEF SameStack
  <2>4. CloudMoves
    BY <2>1, <2>3 DEF CloudMoves, IsComplete
  <2> QED
    BY <2>1, <2>2, <2>4 DEF BudgetType, budget
<1>7. ASSUME LoadBalancerActive(s) PROVE CloudType' /\ BudgetType' /\ CloudMoves
  <2>1. /\ elb' = [elb EXCEPT ![s] = "active"]
        /\ UNCHANGED <<stacks, previous, young, budget>>
    BY <1>7 DEF LoadBalancerActive
  <2>2. \A x : SameStack(x, x)
    BY DEF SameStack
  <2> QED
    BY <2>1, <2>2 DEF CloudMoves, CloudType, BudgetType, budget
<1>8. /\ UNCHANGED <<kubeVars, certs, cycleVars, pc, firstRun, rgSupport>>
      /\ idle' = FALSE
  BY DEF CloudProgress, CloudFailure, CreateCompletes, CreateFails,
         UpdateCompletes, UpdateRollsBack, DeleteCompletes, DeleteFails,
         LoadBalancerActive, Progress, Environment
<1> QED
  BY <1>1, <1>2, <1>3, <1>4, <1>5, <1>6, <1>7, <1>8 DEF CloudProgress, CloudFailure

-----------------------------------------------------------------------------
(* What the controller makes CloudFormation do *)

LEMMA CurrentFacts ==
  ASSUME TypeInv, pc \in {"apply", "publish"}, at <= Len(model)
  PROVE  /\ at \in DOMAIN model /\ IsLB(Current) /\ LBInv(Current)
         /\ Configured(Current) /\ FromSnap(Current)
         /\ view.alarms \in Alarms
<1>1. at \in DOMAIN model
  BY DEF TypeInv, CycleType, StageInv, TypeOK, IsSequence
<1> QED
  BY <1>1 DEF TypeInv, CycleType, StageInv, TypeOK, ModelInv, IInv, Current, Working

LEMMA StatusFacts ==
  ASSUME NEW status, StatusIs(status)
  PROVE  /\ pc = "apply" /\ at <= Len(model)
         /\ status = "missing" => ~Current.clusterLocal /\ Current.stack = None
         /\ status = "delete" => ~Current.clusterLocal /\ Current.stack # None
         /\ status = "update" =>
              /\ ~Current.clusterLocal /\ Current.stack # None
              /\ firstRun \/ IsComplete(snap[Current.stack])
         /\ status = "ready" => Current.clusterLocal \/ Current.stack # None
BY DEF StatusIs, LBStatus

(* CreateStack makes stack s for owner.                                    *)
Creates(s, owner) ==
  /\ s \in Unused /\ owner \in Owners(Current)
  /\ DOMAIN stacks' = DOMAIN stacks \cup {s}
  /\ \A t \in DOMAIN stacks : stacks'[t] = stacks[t]
  /\ stacks'[s] = CreatedStack(owner)
  /\ UNCHANGED <<previous, elb>>
  /\ young' \in [StackName -> 0 .. MinAge]
  /\ young'[s] = MinAge /\ \A t \in StackName \ {s} : young'[t] = young[t]

(* UpdateStack changes the stack of the current load balancer.             *)
Updates(owner) ==
  /\ owner \in Owners(Current)
  /\ Current.stack \in DOMAIN stacks /\ IsComplete(stacks[Current.stack])
  /\ DOMAIN stacks' = DOMAIN stacks
  /\ \A t \in DOMAIN stacks \ {Current.stack} : stacks'[t] = stacks[t]
  /\ stacks'[Current.stack] = UpdatedStack(owner)
  /\ DOMAIN previous' = DOMAIN previous \cup {Current.stack}
  /\ \A t \in DOMAIN previous \ {Current.stack} : previous'[t] = previous[t]
  /\ previous'[Current.stack] = stacks[Current.stack]
  /\ UNCHANGED <<elb, young>>

(* DeleteStack deletes the stack of the current load balancer.             *)
Deletes ==
  /\ DOMAIN stacks' = DOMAIN stacks
  /\ \A t \in DOMAIN stacks \ {Current.stack} : stacks'[t] = stacks[t]
  /\ Current.stack \in DOMAIN stacks =>
       stacks'[Current.stack] = [stacks[Current.stack] EXCEPT !.status = "deleting"]
  /\ Dropped(Current.stack)
  /\ UNCHANGED <<elb, young>>

LEMMA CreateStep ==
  ASSUME TypeInv, CreateStack
  PROVE  /\ \E s \in StackName : \E owner : Creates(s, owner)
         /\ ~Current.clusterLocal /\ Current.stack = None
<1>1. PICK s \in Unused, owner \in Owners(Current) :
        /\ stacks' = [n \in DOMAIN stacks \cup {s} |->
             IF n \in DOMAIN stacks THEN stacks[n] ELSE CreatedStack(owner)]
        /\ young' = [young EXCEPT ![s] = MinAge]
  BY DEF CreateStack
<1>2. s \in StackName /\ s \notin DOMAIN stacks
  BY <1>1 DEF Unused
<1>3. /\ young' \in [StackName -> 0 .. MinAge]
      /\ young'[s] = MinAge /\ \A t \in StackName \ {s} : young'[t] = young[t]
  BY <1>1, <1>2, ControllerAssumption DEF TypeInv, CloudType
<1> DEFINE new == CreatedStack(owner)
<1>4. stacks' = [n \in DOMAIN stacks \cup {s} |->
                   IF n \in DOMAIN stacks THEN stacks[n] ELSE new]
  BY <1>1
<1> HIDE DEF new
<1>5. /\ DOMAIN stacks' = DOMAIN stacks \cup {s}
      /\ \A t \in DOMAIN stacks : stacks'[t] = stacks[t]
      /\ stacks'[s] = new
  BY <1>2, <1>4
<1>6. UNCHANGED <<previous, elb>> /\ StatusIs("missing")
  BY DEF CreateStack
<1>7. Creates(s, owner)
  BY <1>1, <1>3, <1>5, <1>6 DEF Creates, new
<1> QED
  BY <1>2, <1>6, <1>7, StatusFacts

LEMMA CreatesType ==
  ASSUME TypeInv, pc = "apply", at <= Len(model),
         ~Current.clusterLocal, Current.stack = None,
         NEW s \in StackName, NEW owner, Creates(s, owner)
  PROVE  CloudType' /\ s \notin DOMAIN stacks
<1> DEFINE new == CreatedStack(owner)
<1>1. /\ IsLB(Current) /\ Configured(Current) /\ view.alarms \in Alarms
  BY CurrentFacts
<1>2. owner \in Name \cup {None}
  BY <1>1, OwnersType DEF Creates
<1>3. IsStack(new) /\ new.status = "creating"
  <2>1. DOMAIN Current.ingresses \subseteq Cert
    BY <1>1 DEF IsLB, Configured
  <2> DEFINE cs == [c \in DOMAIN Current.ingresses |-> NoExpiry]
  <2>2. cs \in [DOMAIN cs -> Expiry] /\ DOMAIN cs \subseteq Cert
    BY <2>1 DEF Expiry
  <2>3. new = [status |-> "creating", owner |-> owner, class |-> Current.class,
               sg |-> Current.sg, waf |-> Current.waf, ssl |-> Current.ssl,
               alarms |-> view.alarms, certs |-> cs]
    BY DEF CreatedStack
  <2> HIDE DEF new, cs
  <2> QED
    BY <1>1, <1>2, <2>2, <2>3 DEF IsStack, Status, Configured
<1> HIDE DEF new
<1>4. /\ s \notin DOMAIN stacks
      /\ DOMAIN stacks' = DOMAIN stacks \cup {s}
      /\ \A t \in DOMAIN stacks : stacks'[t] = stacks[t]
      /\ stacks'[s] = new
      /\ UNCHANGED <<previous, elb>>
      /\ young' \in [StackName -> 0 .. MinAge]
  BY DEF Creates, Unused, new
<1>5. IsSnapshot(stacks')
  BY <1>3, <1>4 DEF TypeInv, CloudType, IsSnapshot
<1>6. DOMAIN previous' = {t \in DOMAIN stacks' : stacks'[t].status = "updating"}
  BY <1>3, <1>4 DEF TypeInv, CloudType
<1> QED
  BY <1>4, <1>5, <1>6 DEF TypeInv, CloudType

(* Either CloudFormation accepts the update, or there is nothing to do if  *)
(* it could.                                                               *)
LEMMA UpdateStep ==
  ASSUME TypeInv, UpdateStack
  PROVE  \/ (\E owner : Updates(owner)) /\ idle' = FALSE
         \/ /\ UNCHANGED <<stacks, previous, elb, young>> /\ idle' = idle
            /\ Current.stack \in DOMAIN stacks /\ IsComplete(stacks[Current.stack])
                 => stacks[Current.stack].certs = CertificateARNs(Current)
<1>1. PICK owner \in Owners(Current) :
        IF Updatable(Current.stack, UpdatedStack(owner))
          THEN /\ stacks' = [stacks EXCEPT ![Current.stack] = UpdatedStack(owner)]
               /\ previous' = [n \in DOMAIN previous \cup {Current.stack} |->
                     IF n = Current.stack THEN stacks[Current.stack] ELSE previous[n]]
               /\ idle' = FALSE
          ELSE UNCHANGED <<stacks, previous, idle>>
  BY DEF UpdateStack
<1>2. UNCHANGED <<elb, young>>
  BY DEF UpdateStack
<1> DEFINE s == Current.stack
           new == UpdatedStack(owner)
<1>3. CASE Updatable(s, new)
  <2>1. /\ s \in DOMAIN stacks /\ IsComplete(stacks[s])
        /\ stacks' = [stacks EXCEPT ![s] = new]
        /\ previous' = [n \in DOMAIN previous \cup {s} |->
                          IF n = s THEN stacks[s] ELSE previous[n]]
        /\ idle' = FALSE
    BY <1>1, <1>3 DEF Updatable
  <2> HIDE DEF new, s
  <2>2. /\ DOMAIN stacks' = DOMAIN stacks
        /\ \A t \in DOMAIN stacks \ {s} : stacks'[t] = stacks[t]
        /\ stacks'[s] = new
        /\ DOMAIN previous' = DOMAIN previous \cup {s}
        /\ \A t \in DOMAIN previous \ {s} : previous'[t] = previous[t]
        /\ previous'[s] = stacks[s]
    BY <2>1
  <2>3. Updates(owner)
    BY <1>1, <1>2, <2>1, <2>2 DEF Updates, new, s
  <2> QED
    BY <2>1, <2>3
<1>4. CASE ~Updatable(s, new)
  <2>1. UNCHANGED <<stacks, previous, idle>>
    BY <1>1, <1>4
  <2>2. ASSUME s \in DOMAIN stacks, IsComplete(stacks[s])
        PROVE  stacks[s].certs = CertificateARNs(Current)
    <3>1. stacks[s] = [new EXCEPT !.status = "complete"]
      BY <1>4, <2>2 DEF Updatable
    <3> QED
      BY <3>1 DEF UpdatedStack
  <2> QED
    BY <1>2, <2>1, <2>2
<1> QED
  BY <1>3, <1>4

LEMMA UpdatesType ==
  ASSUME TypeInv, pc = "apply", at <= Len(model), ~Current.clusterLocal,
         NEW owner, Updates(owner)
  PROVE  CloudType'
<1> DEFINE new == UpdatedStack(owner)
           s == Current.stack
<1>1. /\ IsLB(Current) /\ Configured(Current) /\ view.alarms \in Alarms
  BY CurrentFacts
<1>2. owner \in Name \cup {None}
  BY <1>1, OwnersType DEF Updates
<1>3. IsStack(new) /\ new.status = "updating"
  <2> DEFINE cs == CertificateARNs(Current)
  <2>1. cs \in [DOMAIN cs -> Expiry] /\ DOMAIN cs \subseteq Cert
    BY <1>1, WrittenCertificates
  <2>2. new = [status |-> "updating", owner |-> owner, class |-> Current.class,
               sg |-> Current.sg, waf |-> Current.waf, ssl |-> Current.ssl,
               alarms |-> view.alarms, certs |-> cs]
    BY DEF UpdatedStack
  <2> HIDE DEF new, cs
  <2> QED
    BY <1>1, <1>2, <2>1, <2>2 DEF IsStack, Status, Configured
<1>4. /\ s \in DOMAIN stacks /\ IsComplete(stacks[s])
      /\ DOMAIN stacks' = DOMAIN stacks
      /\ \A t \in DOMAIN stacks \ {s} : stacks'[t] = stacks[t]
      /\ stacks'[s] = new
      /\ DOMAIN previous' = DOMAIN previous \cup {s}
      /\ \A t \in DOMAIN previous \ {s} : previous'[t] = previous[t]
      /\ previous'[s] = stacks[s]
      /\ UNCHANGED <<elb, young>>
  BY DEF Updates
<1> HIDE DEF new, s
<1>5. IsSnapshot(stacks') /\ IsSnapshot(previous')
  BY <1>3, <1>4 DEF TypeInv, CloudType, IsSnapshot
<1>6. DOMAIN previous' = {t \in DOMAIN stacks' : stacks'[t].status = "updating"}
  BY <1>3, <1>4 DEF TypeInv, CloudType
<1>7. \A t \in DOMAIN previous' : IsComplete(previous'[t])
  BY <1>4 DEF TypeInv, CloudType
<1> QED
  BY <1>4, <1>5, <1>6, <1>7 DEF TypeInv, CloudType

LEMMA DeleteStep ==
  ASSUME DeleteStack
  PROVE  Deletes
<1> DEFINE s == Current.stack
<1>1. /\ stacks' = [t \in DOMAIN stacks |->
           IF t = s THEN [stacks[t] EXCEPT !.status = "deleting"] ELSE stacks[t]]
      /\ previous' = [t \in DOMAIN previous \ {s} |-> previous[t]]
      /\ UNCHANGED <<elb, young>>
  BY DEF DeleteStack
<1> HIDE DEF s
<1>2. Dropped(s)
  BY <1>1 DEF Dropped
<1> QED
  BY <1>1, <1>2 DEF Deletes, s

LEMMA DeletesType ==
  ASSUME CloudType, Deletes
  PROVE  CloudType'
<1> DEFINE s == Current.stack
<1>1. /\ DOMAIN stacks' = DOMAIN stacks
      /\ \A t \in DOMAIN stacks \ {s} : stacks'[t] = stacks[t]
      /\ s \in DOMAIN stacks => stacks'[s] = [stacks[s] EXCEPT !.status = "deleting"]
      /\ Dropped(s) /\ UNCHANGED <<elb, young>>
  BY DEF Deletes
<1> HIDE DEF s
<1>2. s \in DOMAIN stacks => IsStack(stacks'[s]) /\ stacks'[s].status = "deleting"
  BY <1>1, ChangedStatus DEF CloudType, IsSnapshot, Status
<1>3. IsSnapshot(stacks') /\ IsSnapshot(previous')
  BY <1>1, <1>2 DEF CloudType, IsSnapshot, Dropped
<1>4. DOMAIN previous' = {t \in DOMAIN stacks' : stacks'[t].status = "updating"}
  BY <1>1, <1>2 DEF CloudType, Dropped
<1>5. \A t \in DOMAIN previous' : IsComplete(previous'[t])
  BY <1>1 DEF CloudType, Dropped
<1> QED
  BY <1>1, <1>3, <1>4, <1>5 DEF CloudType

-----------------------------------------------------------------------------
(* What a cycle remembers *)

LEMMA EmptyCycle ==
  /\ IsSnapshot(EmptyMap) /\ PartialFunction(EmptyMap, Ident, Resource)
  /\ IsSequence(<<>>) /\ DOMAIN <<>> = {} /\ Len(<<>>) = 0
  /\ NoView \in [hostname : [Ident -> StackName \cup {None}],
                 active : SUBSET StackName, alarms : Alarms \cup {None}]
<1>1. EmptyMap \in [{} -> Resource] /\ DOMAIN EmptyMap = {}
  BY DEF EmptyMap
<1> QED
  BY <1>1 DEF IsSnapshot, PartialFunction, IsSequence, NoView

LEMMA ForgottenCycle ==
  ASSUME ForgetCycle, pc' = "sleep", firstRun' \in BOOLEAN, rgSupport' \in BOOLEAN
  PROVE  CycleType' /\ ModelInv'
<1>1. TypeOK'
  BY EmptyCycle DEF ForgetCycle, TypeOK
<1>2. StageInv'
  BY DEF StageInv, ForgetCycle, Working
<1>3. CycleType'
  BY <1>1, <1>2, EmptyCycle DEF ForgetCycle, CycleType
<1>4. ModelInv'
  BY EmptyCycle DEF ForgetCycle, ModelInv, IInv, DistinctStacks
<1> QED
  BY <1>3, <1>4

LEMMA KeptModel ==
  ASSUME ModelInv, UNCHANGED <<snap, available, listed, model>>
  PROVE  ModelInv'
<1>1. IInv'
  BY InputsKept DEF ModelInv, IInv, inputVars
<1> QED
  BY <1>1 DEF ModelInv, FromSnap, Configured, DistinctStacks

LEMMA KeptCycle ==
  ASSUME CycleType, ModelInv, UNCHANGED <<cycleVars, pc, firstRun, rgSupport>>
  PROVE  CycleType' /\ ModelInv'
<1>1. ModelInv'
  BY KeptModel DEF cycleVars, matchVars
<1>2. TypeOK' /\ StageInv'
  BY DEF CycleType, TypeOK, StageInv, cycleVars, matchVars
<1> QED
  BY <1>1, <1>2 DEF CycleType, cycleVars

(* The controller goes on to the next load balancer, or to the resources.  *)
LEMMA NextInCycle ==
  ASSUME TypeInv, pc = "apply", at <= Len(model), NextLB \/ Publish,
         UNCHANGED <<matchVars, view, firstRun, rgSupport>>
  PROVE  CycleType' /\ ModelInv'
<1>1. ModelInv'
  BY KeptModel DEF TypeInv, matchVars
<1>2. TypeOK'
  BY DEF TypeInv, CycleType, TypeOK, matchVars
<1>3. at \in 1 .. Len(model) /\ at \in DOMAIN model /\ Len(model) \in Nat
  BY CurrentFacts DEF TypeInv, CycleType, StageInv, TypeOK, IsSequence
<1>4. ToPublish \subseteq Ident
  BY CurrentFacts DEF ToPublish, Members, IsLB
<1>5. StageInv' /\ queue' \subseteq Ident /\ pc' \in {"apply", "publish"}
  <2>1. CASE NextLB
    BY <2>1, <1>3 DEF NextLB, TypeInv, CycleType, StageInv, matchVars, Loaded, Working
  <2>2. CASE ~NextLB
    BY <2>2, <1>3, <1>4
    DEF Publish, TypeInv, CycleType, StageInv, matchVars, Loaded, Working
  <2> QED
    BY <2>1, <2>2
<1> QED
  BY <1>1, <1>2, <1>5 DEF TypeInv, CycleType, Working

LEMMA DequeueStep ==
  ASSUME TypeInv, NEW id, Dequeue(id), UNCHANGED <<matchVars, view, firstRun, rgSupport>>
  PROVE  CycleType' /\ ModelInv'
<1>1. ModelInv'
  BY KeptModel DEF TypeInv, matchVars
<1>2. TypeOK'
  BY DEF TypeInv, CycleType, TypeOK, matchVars
<1>3. at \in 1 .. Len(model) /\ at \in DOMAIN model /\ Len(model) \in Nat
  BY DEF Dequeue, TypeInv, CycleType, StageInv, TypeOK, IsSequence
<1>4. StageInv' /\ queue' \subseteq Ident /\ pc' \in {"apply", "publish"}
  BY <1>3 DEF Dequeue, TypeInv, CycleType, StageInv, matchVars, Loaded, Working
<1> QED
  BY <1>1, <1>2, <1>4 DEF TypeInv, CycleType, Working

-----------------------------------------------------------------------------
(* Reading and building the model *)

LEMMA AttachedType ==
  ASSUME NEW r \in Resource
  PROVE  AttachGlobalACL(r) \in Resource
BY ConstantsAssumption DEF AttachGlobalACL, Resource

(* While the cycle reads, there is no model.                               *)
LEMMA NothingBuilt ==
  ASSUME CycleType, pc \notin Loaded
  PROVE  model = <<>> /\ DOMAIN model = {} /\ Len(model) = 0 /\ todo = {}
         /\ (pc # "publish" /\ pc # "apply") /\ at = 0
BY EmptyCycle DEF CycleType, StageInv, Loaded

LEMMA ReadingStep ==
  ASSUME TypeInv, pc \in Reading \cup {"sleep"},
         UNCHANGED <<todo, model, at, queue, firstRun>>,
         IsSnapshot(snap)', (available \in SUBSET Cert)',
         PartialFunction(listed, Ident, Resource)',
         view' \in [hostname : [Ident -> StackName \cup {None}],
                   active : SUBSET StackName, alarms : Alarms \cup {None}],
         rgSupport' \in BOOLEAN,
         pc' \in Reading \/ (pc' = "build" /\ view'.alarms \in Alarms),
         pc' \in {"resources", "stacks"} => snap' = EmptyMap
  PROVE  CycleType' /\ ModelInv'
<1>1. /\ model = <<>> /\ DOMAIN model = {} /\ todo = {} /\ at = 0
  BY NothingBuilt DEF TypeInv, Reading, Loaded
<1>2. TypeOK'
  BY <1>1, EmptyCycle DEF TypeOK
<1>3. StageInv'
  BY <1>1, EmptyCycle DEF StageInv, Reading, Loaded, Working
<1>4. ModelInv'
  BY <1>1 DEF ModelInv, IInv, DistinctStacks
<1> QED
  BY <1>2, <1>3, <1>4 DEF TypeInv, CycleType, Reading, Working

LEMMA FreshLB ==
  ASSUME IsSnapshot(snap), available \in SUBSET Cert, NEW lb, Fresh(lb)
  PROVE  Configured(lb) /\ FromSnap(lb)
<1>1. CASE lb = ClusterLocalLB
  BY <1>1, ClusterLocalLBFacts DEF Configured, FromSnap
<1>2. ASSUME NEW s \in DOMAIN snap, s \in StackName, IsStack(snap[s]),
             lb = FromStack(s, snap[s], available)
      PROVE  Configured(lb) /\ FromSnap(lb)
  <2>1. /\ lb.stack = s /\ lb.owner = snap[s].owner /\ lb.class = snap[s].class
        /\ lb.sg = snap[s].sg /\ lb.waf = snap[s].waf /\ lb.ssl = snap[s].ssl
        /\ lb.existing = [c \in DOMAIN snap[s].certs \cap available |-> snap[s].certs[c]]
    BY <1>2 DEF FromStack
  <2>2. DOMAIN lb.ingresses \subseteq Cert
    BY <1>2, FromStackFacts
  <2>3. Configured(lb)
    BY <1>2, <2>1, <2>2, ConstantsAssumption DEF Configured, IsStack
  <2>4. FromSnap(lb)
    BY <2>1 DEF FromSnap
  <2> QED
    BY <2>3, <2>4
<1> QED
  BY <1>1, <1>2 DEF Fresh

(* Where nothing is placed yet, the resources do not matter.               *)
LEMMA EmptyKept ==
  ASSUME NEW lb, LBInv(lb), Members(lb) = {}
  PROVE  LBInv(lb)'
BY DEF LBInv, SharingKept, OwnershipKept, SettingsKept, CapacityKept, Members

LEMMA BuildStep ==
  ASSUME TypeInv, BuildModel
  PROVE  /\ CycleType' /\ ModelInv'
         /\ \A i \in DOMAIN model' : Fresh(model'[i])
         /\ DOMAIN snap # {} => \E i \in DOMAIN model' : model'[i].stack # None
<1>1. PICK order \in Orderings : model' = ModelOf(order)
  BY DEF BuildModel
<1>2. IsSnapshot(snap) /\ available \in SUBSET Cert
  BY DEF TypeInv, CycleType, TypeOK
<1>3. /\ IsSequence(model')
      /\ \A i \in DOMAIN model' : Fresh(model'[i])
      /\ DOMAIN snap # {} => \E i \in DOMAIN model' : model'[i].stack # None
      /\ DistinctStacks'
  BY <1>1, <1>2, BuiltModel DEF DistinctStacks
<1>4. \A i \in DOMAIN model' :
        /\ IsLB(model'[i]) /\ Members(model'[i]) = {}
        /\ Configured(model'[i]) /\ FromSnap(model'[i]) /\ LBInv(model'[i])
  BY <1>2, <1>3, FreshType, FreshLB, FreshKept
<1>5. PartialFunction(listed, Ident, Resource)'
  BY AttachedType DEF BuildModel, TypeInv, CycleType, TypeOK, PartialFunction
<1>6. UNCHANGED <<snap, available, view, at, queue, firstRun, rgSupport>>
      /\ pc = "build" /\ pc' = "match" /\ todo' = DOMAIN listed
      /\ DOMAIN listed' = DOMAIN listed
  BY DEF BuildModel
<1>7. TypeOK'
  BY <1>2, <1>3, <1>4, <1>5, <1>6 DEF TypeOK
<1>8. StageInv'
  BY <1>6 DEF TypeInv, CycleType, StageInv, Loaded, Working
<1>9. CycleType'
  BY <1>6, <1>7, <1>8 DEF TypeInv, CycleType, Working
<1>10. IInv'
  BY <1>4, EmptyKept DEF IInv
<1>11. ModelInv'
  BY <1>3, <1>4, <1>6, <1>10 DEF ModelInv, Configured, FromSnap
<1> QED
  BY <1>3, <1>9, <1>11

(* What holds of a load balancer rests on the resources and certificates. *)
LEMMA InputsOfMatching ==
  ASSUME UNCHANGED <<available, listed>>, NEW lb, LBInv(lb)
  PROVE  LBInv(lb)'
BY DEF LBInv, SharingKept, OwnershipKept, SettingsKept, CapacityKept, Wanted

LEMMA MatchStep ==
  ASSUME TypeInv, MatchResource
  PROVE  CycleType' /\ ModelInv'
<1>1. PICK id \in Ident : Place(id)
  BY DEF MatchResource
<1>2. TypeOK /\ IInv
  BY DEF TypeInv, CycleType, ModelInv
<1>3. TypeOK' /\ IInv'
  BY <1>1, <1>2, PlaceKeepsTypes, PlaceKeepsInvariant
<1>4. /\ pc = "match" /\ UNCHANGED <<view, at, queue, pc, firstRun, rgSupport>>
      /\ UNCHANGED inputVars
  BY <1>1 DEF MatchResource, Place, PlaceClusterLocal, SkipWithoutCertificate,
              PlaceOnFirstFit, PlaceOnNew
<1>5. CycleType'
  BY <1>3, <1>4 DEF TypeInv, CycleType, StageInv, Loaded, Working
<1>6. \A i \in DOMAIN model : Configured(model[i]) /\ FromSnap(model[i])
  BY DEF TypeInv, ModelInv
<1>7. ASSUME NEW i \in DOMAIN model, NEW keys, Grows(i, id, keys),
             ~model[i].clusterLocal => keys \subseteq Cert /\ model'[i].ssl \in Policy
      PROVE  \A j \in DOMAIN model' : Configured(model'[j]) /\ FromSnap(model'[j])
  <2>1. Configured(model'[i]) /\ FromSnap(model'[i])
    BY <1>6, <1>7, ConstantsAssumption
    DEF Grows, Joined, SameSettings, Configured, FromSnap
  <2> QED
    BY <1>6, <1>7, <2>1 DEF Grows
<1>8. ASSUME PlaceClusterLocal(id)
      PROVE  \A j \in DOMAIN model' : Configured(model'[j]) /\ FromSnap(model'[j])
  BY <1>2, <1>7, <1>8, StepOfClusterLocal
<1>9. ASSUME SkipWithoutCertificate(id)
      PROVE  \A j \in DOMAIN model' : Configured(model'[j]) /\ FromSnap(model'[j])
  BY <1>6, <1>9 DEF SkipWithoutCertificate
<1>10. ASSUME PlaceOnFirstFit(id)
       PROVE  \A j \in DOMAIN model' : Configured(model'[j]) /\ FromSnap(model'[j])
  <2>1. PICK i \in Fits(id) : /\ Grows(i, id, Wanted(id))
                             /\ model'[i].ssl = listed[id].ssl
    BY <1>2, <1>10, StepOfFirstFit
  <2>2. listed[id] \in Resource
    BY <1>2, <1>10 DEF PlaceOnFirstFit, Turn, TypeOK, PartialFunction
  <2>3. Wanted(id) \subseteq Cert
    BY <1>2, <1>10, StepOfFirstFit
  <2> QED
    BY <1>7, <2>1, <2>2, <2>3 DEF Resource, Fits
<1>11. ASSUME PlaceOnNew(id)
       PROVE  \A j \in DOMAIN model' : Configured(model'[j]) /\ FromSnap(model'[j])
  <2>1. Extends(id) /\ Wanted(id) \subseteq Cert
    BY <1>2, <1>11, StepOfNew
  <2>2. listed[id] \in Resource
    BY <1>2, <1>11 DEF PlaceOnNew, Turn, TypeOK, PartialFunction
  <2>3. Configured(model'[Len(model) + 1]) /\ FromSnap(model'[Len(model) + 1])
    BY <2>1, <2>2, ConstantsAssumption DEF Extends, Configured, FromSnap, Resource
  <2> QED
    BY <1>6, <2>1, <2>3 DEF Extends
<1>12. \A j \in DOMAIN model' : Configured(model'[j]) /\ FromSnap(model'[j])
  BY <1>1, <1>8, <1>9, <1>10, <1>11 DEF Place
<1>13. UNCHANGED snap /\ UNCHANGED available
  BY <1>4 DEF inputVars
<1>14. \/ UNCHANGED model
       \/ \E i, keys : Grows(i, id, keys)
       \/ Extends(id)
  BY <1>1, <1>2, StepOfClusterLocal, StepOfFirstFit, StepOfNew
  DEF Place, SkipWithoutCertificate
<1>15. DistinctStacks'
  BY <1>14 DEF TypeInv, ModelInv, DistinctStacks, Grows, Extends, SameSettings
<1>16. ModelInv'
  BY <1>3, <1>12, <1>13, <1>15 DEF ModelInv, Configured, FromSnap
<1> QED
  BY <1>5, <1>16

-----------------------------------------------------------------------------
(* Time *)

LEMMA MappedSequence ==
  ASSUME NEW s, IsSequence(s), NEW t, t = [i \in DOMAIN s |-> t[i]]
  PROVE  IsSequence(t) /\ DOMAIN t = DOMAIN s /\ Len(t) = Len(s)
<1>1. Len(s) \in Nat /\ DOMAIN s = 1 .. Len(s)
  BY DEF IsSequence
<1> DEFINE S == {t[k] : k \in DOMAIN t}
<1>2. t \in [1 .. Len(s) -> S]
  BY <1>1
<1> HIDE DEF S
<1>3. Seq(S) = UNION {[1 .. n -> S] : n \in Nat}
  BY SeqDef
<1>4. t \in Seq(S)
  BY <1>1, <1>2, <1>3, Zenon
<1>5. DOMAIN t = 1 .. Len(s) /\ DOMAIN t = 1 .. Len(t) /\ Len(t) \in Nat
  BY <1>1, <1>2, <1>4
<1> QED
  BY <1>1, <1>4, <1>5 DEF IsSequence, S

LEMMA AgedLB ==
  ASSUME NEW lb, IsLB(lb), NEW new, new = [lb EXCEPT !.existing = Older(@)]
  PROVE  /\ IsLB(new) /\ new.ingresses = lb.ingresses
         /\ new.stack = lb.stack /\ new.owner = lb.owner
         /\ new.clusterLocal = lb.clusterLocal /\ new.class = lb.class
         /\ new.sg = lb.sg /\ new.waf = lb.waf /\ new.ssl = lb.ssl
         /\ new.shared = lb.shared
         /\ DOMAIN new.existing = DOMAIN lb.existing
         /\ \A c \in DOMAIN lb.existing : new.existing[c] = Later(lb.existing[c])
<1>1. lb.existing \in [DOMAIN lb.existing -> Expiry] /\ DOMAIN lb.existing \subseteq Cert
  BY DEF IsLB
<1> DEFINE o == Older(lb.existing)
<1>2. /\ o \in [DOMAIN lb.existing -> Expiry] /\ DOMAIN o = DOMAIN lb.existing
      /\ \A c \in DOMAIN lb.existing : o[c] = Later(lb.existing[c])
  BY <1>1, OlderCertificates
<1>3. new = [lb EXCEPT !.existing = o]
  OBVIOUS
<1> HIDE DEF o
<1>4. new.existing = o /\ new.ingresses = lb.ingresses
  BY <1>3 DEF IsLB
<1>5. IsLB(new)
  BY <1>1, <1>2, <1>3, <1>4 DEF IsLB
<1>6. /\ new.stack = lb.stack /\ new.owner = lb.owner
      /\ new.clusterLocal = lb.clusterLocal /\ new.class = lb.class
      /\ new.sg = lb.sg /\ new.waf = lb.waf /\ new.ssl = lb.ssl
      /\ new.shared = lb.shared
  BY <1>3 DEF IsLB
<1> QED
  BY <1>2, <1>4, <1>5, <1>6

LEMMA TickStep ==
  ASSUME TypeInv, Tick
  PROVE  /\ CloudType' /\ CycleType' /\ ModelInv'
         /\ DOMAIN model' = DOMAIN model /\ Len(model') = Len(model)
         /\ \A i \in DOMAIN model :
              /\ model'[i].stack = model[i].stack
              /\ model'[i].clusterLocal = model[i].clusterLocal
              /\ model'[i].class = model[i].class /\ model'[i].sg = model[i].sg
              /\ model'[i].waf = model[i].waf /\ model'[i].ssl = model[i].ssl
              /\ model'[i].owner = model[i].owner /\ model'[i].shared = model[i].shared
              /\ model'[i].ingresses = model[i].ingresses
<1>1. /\ IsSnapshot(stacks) /\ IsSnapshot(previous) /\ IsSnapshot(snap)
      /\ stacks' = Aged(stacks) /\ previous' = Aged(previous) /\ snap' = Aged(snap)
      /\ young' = [s \in StackName |-> Later(young[s])]
      /\ UNCHANGED <<elb, available, listed, todo, view, at, queue, pc, firstRun,
                     rgSupport>>
  BY DEF Tick, TypeInv, CloudType, CycleType, TypeOK
<1>2. young' \in [StackName -> 0 .. MinAge]
  BY <1>1, ControllerAssumption DEF TypeInv, CloudType, Later
<1>3. CloudType'
  <2>1. /\ IsSnapshot(stacks') /\ DOMAIN stacks' = DOMAIN stacks
        /\ \A s \in DOMAIN stacks : stacks'[s].status = stacks[s].status
    BY <1>1, AgedSnapshot
  <2>2. /\ IsSnapshot(previous') /\ DOMAIN previous' = DOMAIN previous
        /\ \A s \in DOMAIN previous : previous'[s].status = previous[s].status
    BY <1>1, AgedSnapshot
  <2> QED
    BY <1>1, <1>2, <2>1, <2>2 DEF TypeInv, CloudType, IsComplete
<1>4. model' = [i \in DOMAIN model |-> [model[i] EXCEPT !.existing = Older(@)]]
  BY DEF Tick
<1>5. DOMAIN model' = DOMAIN model /\ Len(model') = Len(model) /\ IsSequence(model')
  <2>1. IsSequence(model) /\ model' = [i \in DOMAIN model |-> model'[i]]
    BY <1>4 DEF TypeInv, CycleType, TypeOK
  <2> QED
    BY <2>1, MappedSequence
<1>6. ASSUME NEW i \in DOMAIN model
      PROVE  /\ IsLB(model[i]) /\ LBInv(model[i])
             /\ Configured(model[i]) /\ FromSnap(model[i])
             /\ model'[i] = [model[i] EXCEPT !.existing = Older(@)]
  BY <1>4 DEF TypeInv, CycleType, TypeOK, ModelInv, IInv
<1>7. ASSUME NEW i \in DOMAIN model
      PROVE  /\ IsLB(model'[i]) /\ model'[i].ingresses = model[i].ingresses
             /\ model'[i].stack = model[i].stack /\ model'[i].owner = model[i].owner
             /\ model'[i].clusterLocal = model[i].clusterLocal
             /\ model'[i].class = model[i].class /\ model'[i].sg = model[i].sg
             /\ model'[i].waf = model[i].waf /\ model'[i].ssl = model[i].ssl
             /\ model'[i].shared = model[i].shared
             /\ DOMAIN model'[i].existing = DOMAIN model[i].existing
             /\ \A c \in DOMAIN model[i].existing :
                  model'[i].existing[c] = Later(model[i].existing[c])
  <2> DEFINE lb == model[i]
             new == model'[i]
  <2>1. IsLB(lb) /\ new = [lb EXCEPT !.existing = Older(@)]
    BY <1>6
  <2> HIDE DEF lb, new
  <2>2. /\ IsLB(new) /\ new.ingresses = lb.ingresses
        /\ new.stack = lb.stack /\ new.owner = lb.owner
        /\ new.clusterLocal = lb.clusterLocal /\ new.class = lb.class
        /\ new.sg = lb.sg /\ new.waf = lb.waf /\ new.ssl = lb.ssl
        /\ new.shared = lb.shared
        /\ DOMAIN new.existing = DOMAIN lb.existing
        /\ \A c \in DOMAIN lb.existing : new.existing[c] = Later(lb.existing[c])
    BY <2>1, AgedLB
  <2> QED
    BY <2>2 DEF lb, new
<1>8. TypeOK'
  BY <1>1, <1>5, <1>7, AgedSnapshot DEF TypeInv, CycleType, TypeOK
<1>9. StageInv'
  <2>1. model = <<>> => model' = <<>>
    BY <1>4, EmptyCycle
  <2>2. snap = EmptyMap => snap' = EmptyMap
    BY <1>1 DEF Aged, EmptyMap
  <2> QED
    BY <1>1, <1>5, <2>1, <2>2 DEF TypeInv, CycleType, StageInv
<1>10. CycleType'
  BY <1>1, <1>8, <1>9 DEF TypeInv, CycleType
<1>11. ASSUME NEW i \in DOMAIN model PROVE LBInv(model'[i])
  <2> DEFINE lb == model[i]
             new == model'[i]
  <2>1. Members(new) = Members(lb)
    BY <1>7 DEF Members
  <2>2. /\ new.ingresses = lb.ingresses /\ DOMAIN new.existing = DOMAIN lb.existing
        /\ new.stack = lb.stack /\ new.owner = lb.owner
        /\ new.clusterLocal = lb.clusterLocal /\ new.class = lb.class
        /\ new.sg = lb.sg /\ new.waf = lb.waf /\ new.shared = lb.shared
    BY <1>7
  <2>3. LBInv(lb)
    BY <1>6
  <2> HIDE DEF lb, new
  <2>4. SharingKept(new)
    BY <2>1, <2>2, <2>3 DEF LBInv, SharingKept
  <2>5. OwnershipKept(new)
    BY <2>1, <2>2, <2>3 DEF LBInv, OwnershipKept
  <2>6. SettingsKept(new)
    BY <2>1, <2>2, <2>3 DEF LBInv, SettingsKept
  <2>7. CapacityKept(new)
    BY <2>1, <2>2, <2>3 DEF LBInv, CapacityKept
  <2> QED
    BY <2>4, <2>5, <2>6, <2>7 DEF LBInv, new
<1>12. IInv'
  BY <1>1, <1>5, <1>11, InputsOfMatching DEF IInv
<1>13. \A i \in DOMAIN model : Configured(model'[i])
  BY <1>6, <1>7 DEF Configured
<1>14. ASSUME NEW i \in DOMAIN model PROVE FromSnap(model[i])'
  <2> DEFINE s == model[i].stack
             old == snap[s]
             new == snap'[s]
  <2>1. CASE s = None
    BY <1>7, <2>1 DEF FromSnap
  <2>2. CASE s # None
    <3>1. /\ s \in DOMAIN snap /\ model[i].owner = old.owner
          /\ DOMAIN model[i].existing = DOMAIN old.certs \cap available
          /\ \A c \in DOMAIN model[i].existing : model[i].existing[c] = old.certs[c]
      BY <1>6, <2>2 DEF FromSnap
    <3>2. /\ s \in DOMAIN snap' /\ SameStack(old, new)
          /\ DOMAIN new.certs = DOMAIN old.certs
          /\ \A c \in DOMAIN old.certs : new.certs[c] = Later(old.certs[c])
      BY <1>1, <3>1, AgedSnapshot
    <3>3. model'[i].stack = s
      BY <1>7
    <3> HIDE DEF s, old
    <3>4. /\ model'[i].owner = new.owner
          /\ DOMAIN model'[i].existing = DOMAIN new.certs \cap available
          /\ \A c \in DOMAIN model'[i].existing : model'[i].existing[c] = new.certs[c]
      BY <1>7, <3>1, <3>2 DEF SameStack
    <3> QED
      BY <1>1, <3>2, <3>3, <3>4 DEF FromSnap
  <2> QED
    BY <2>1, <2>2
<1>15. ModelInv'
  BY <1>5, <1>7, <1>12, <1>13, <1>14
  DEF TypeInv, ModelInv, Configured, DistinctStacks
<1> QED
  BY <1>3, <1>5, <1>7, <1>10, <1>15

-----------------------------------------------------------------------------
(* Type correctness *)

LEMMA UserSteps ==
  ASSUME TypeInv, UserStep
  PROVE  /\ UserType' /\ BudgetType' /\ idle' = FALSE
         /\ UNCHANGED <<cloudVars, cycleVars, pc, firstRun, rgSupport>>
         /\ \A id \in Ident : hostname'[id] \in {hostname[id], None}
         /\ pc \notin {"build", "match"}
<1>1. /\ BudgetType' /\ idle' = FALSE
      /\ UNCHANGED <<cloudVars, cycleVars, pc, firstRun, rgSupport>>
      /\ pc \notin {"build", "match"}
  <2>1. Change
    BY DEF UserStep, WriteResource, RemoveResource, WriteAlarms, AddCertificate,
           CertificateExpires
  <2> QED
    BY <2>1, ControllerAssumption DEF Change, Environment, TypeInv, BudgetType
<1>2. ASSUME NEW id \in Ident, WriteResource(id)
      PROVE  UserType' /\ UNCHANGED hostname
  <2>1. PICK r \in Resources :
          kube' = [i \in DOMAIN kube \cup {id} |-> IF i = id THEN r ELSE kube[i]]
    BY <1>2 DEF WriteResource
  <2>2. PartialFunction(kube', Ident, Resources)
    BY <2>1 DEF TypeInv, UserType, PartialFunction
  <2> QED
    BY <1>2, <2>2 DEF WriteResource, TypeInv, UserType
<1>3. ASSUME NEW id \in Ident, RemoveResource(id)
      PROVE  UserType' /\ \A x \in Ident : hostname'[x] \in {hostname[x], None}
  <2>1. PartialFunction(kube', Ident, Resources)
    BY <1>3 DEF RemoveResource, TypeInv, UserType, PartialFunction
  <2> QED
    BY <1>3, <2>1 DEF RemoveResource, TypeInv, UserType
<1>4. ASSUME WriteAlarms \/ AddCertificate \/ CertificateExpires
      PROVE  UserType' /\ UNCHANGED hostname
  BY <1>4 DEF WriteAlarms, AddCertificate, CertificateExpires, kubeVars,
              TypeInv, UserType
<1> QED
  BY <1>1, <1>2, <1>3, <1>4 DEF UserStep

(* A poll step or failure leaves to users what is theirs.                  *)
LEMMA ReadingSteps ==
  ASSUME TypeInv,
         Wake \/ ListResources \/ FindManagedStacks \/ GetStackLBStates
         \/ (GetCertificates /\ certs # {}) \/ GetCloudWatchAlarms
  PROVE  /\ CycleType' /\ ModelInv' /\ BudgetType' /\ idle' \in BOOLEAN
         /\ UNCHANGED <<kubeVars, certs, cloudVars>>
<1>1. /\ TypeOK /\ StageInv /\ BudgetType
      /\ view \in [hostname : [Ident -> StackName \cup {None}],
                   active : SUBSET StackName, alarms : Alarms \cup {None}]
      /\ hostname \in [Ident -> StackName \cup {None}]
      /\ alarms \in Alarms /\ certs \subseteq Cert
      /\ IsSnapshot(snap) /\ IsSnapshot(stacks)
      /\ available \in SUBSET Cert /\ PartialFunction(listed, Ident, Resource)
      /\ rgSupport \in BOOLEAN /\ idle \in BOOLEAN
  BY DEF TypeInv, CycleType, UserType, CloudType, TypeOK
<1>2. CASE Wake
  BY <1>1, <1>2, ReadingStep, ControllerAssumption
  DEF Wake, cycleVars, matchVars, budget, BudgetType, Reading, StageInv
<1>3. CASE ListResources
  <2>1. rgSupport' \in BOOLEAN /\ BudgetType'
    BY <1>1, <1>3, FaultBudget DEF ListResources, BudgetType, budget
  <2>2. PartialFunction(listed, Ident, Resource)'
    <3>1. listed' = [id \in {i \in DOMAIN kube : i \in RouteGroup => rgSupport'} |-> kube[id]]
      BY <1>3 DEF ListResources
    <3> QED
      BY <3>1, ControllerAssumption DEF TypeInv, UserType, PartialFunction
  <2>3. /\ UNCHANGED <<todo, model, at, queue, firstRun, snap, available, idle>>
        /\ pc = "resources" /\ pc' = "stacks"
        /\ view' = [view EXCEPT !.hostname = hostname]
        /\ UNCHANGED <<kubeVars, certs, cloudVars>>
    BY <1>3 DEF ListResources
  <2> QED
    BY <1>1, <2>1, <2>2, <2>3, ReadingStep DEF Reading, StageInv
<1>4. CASE FindManagedStacks
  BY <1>1, <1>4, ReadingStep
  DEF FindManagedStacks, budget, BudgetType, Reading
<1>5. CASE GetStackLBStates
  <2>1. DOMAIN snap \subseteq StackName
    BY <1>1 DEF IsSnapshot
  <2> QED
    BY <1>1, <1>5, <2>1, ReadingStep
    DEF GetStackLBStates, matchVars, budget, BudgetType, Reading
<1>6. CASE GetCertificates /\ certs # {}
  BY <1>1, <1>6, ReadingStep
  DEF GetCertificates, budget, BudgetType, Reading
<1>7. CASE GetCloudWatchAlarms
  BY <1>1, <1>7, ReadingStep
  DEF GetCloudWatchAlarms, matchVars, budget, BudgetType, Reading
<1> QED
  BY <1>2, <1>3, <1>4, <1>5, <1>6, <1>7

(* The steps that end a cycle.                                             *)
Ends == \/ GetCertificates /\ certs = {}
        \/ CycleFails \/ FinishCycle \/ Restart

LEMMA EndingSteps ==
  ASSUME TypeInv, Ends
  PROVE  /\ CycleType' /\ ModelInv' /\ BudgetType' /\ idle' \in BOOLEAN
         /\ UNCHANGED <<kubeVars, certs, cloudVars>>
         /\ ForgetCycle /\ pc' = "sleep"
<1>1. /\ ForgetCycle /\ pc' = "sleep"
      /\ firstRun' \in BOOLEAN /\ rgSupport' \in BOOLEAN /\ idle' \in BOOLEAN
      /\ UNCHANGED <<kubeVars, certs, cloudVars>>
  BY DEF Ends, GetCertificates, CycleFails, FinishCycle, Restart, EndCycle,
         TypeInv, CycleType
<1>2. BudgetType'
  BY FaultBudget DEF Ends, GetCertificates, CycleFails, FinishCycle, Restart,
                     TypeInv, BudgetType, budget
<1> QED
  BY <1>1, <1>2, ForgottenCycle

(* The steps that work on the current load balancer.                       *)
Applies ==
  CreateStack \/ UpdateStack \/ DeleteStack \/ Ready \/ StackCallFails
  \/ QuotaExhausted

LEMMA ApplyingSteps ==
  ASSUME TypeInv, Applies
  PROVE  /\ CloudType' /\ CycleType' /\ ModelInv' /\ BudgetType'
         /\ idle' \in BOOLEAN /\ UNCHANGED <<kubeVars, certs>>
         /\ UNCHANGED <<matchVars, view, firstRun, rgSupport>>
         /\ pc = "apply" /\ at <= Len(model) /\ (NextLB \/ Publish)
<1>1. /\ UNCHANGED <<kubeVars, certs>>
      /\ UNCHANGED <<matchVars, view, firstRun, rgSupport>>
      /\ pc = "apply" /\ at <= Len(model) /\ (NextLB \/ Publish)
      /\ idle' \in BOOLEAN
  BY StatusFacts
  DEF Applies, CreateStack, UpdateStack, DeleteStack, Ready, StackCallFails,
      QuotaExhausted, TypeInv
<1>2. BudgetType'
  BY FaultBudget
  DEF Applies, CreateStack, UpdateStack, DeleteStack, Ready, StackCallFails,
      QuotaExhausted, TypeInv, BudgetType, budget
<1>3. CloudType'
  <2>1. CASE CreateStack
    BY <1>1, <2>1, CreateStep, CreatesType
  <2>2. CASE UpdateStack
    <3>1. ~Current.clusterLocal
      BY <2>2, StatusFacts DEF UpdateStack
    <3>2. UNCHANGED <<stacks, previous, elb, young>> => CloudType'
      BY DEF TypeInv, CloudType
    <3> QED
      BY <1>1, <2>2, <3>1, <3>2, UpdateStep, UpdatesType
  <2>3. CASE DeleteStack
    BY <2>3, DeleteStep, DeletesType DEF TypeInv
  <2>4. CASE Ready \/ StackCallFails \/ QuotaExhausted
    BY <2>4 DEF Ready, StackCallFails, QuotaExhausted, cloudVars, TypeInv, CloudType
  <2> QED
    BY <2>1, <2>2, <2>3, <2>4 DEF Applies
<1> QED
  BY <1>1, <1>2, <1>3, NextInCycle

LEMMA StartStep ==
  ASSUME TypeInv, StartApplying
  PROVE  CycleType' /\ ModelInv'
<1>1. ModelInv' /\ TypeOK'
  BY KeptModel DEF StartApplying, matchVars, TypeInv, CycleType, TypeOK
<1>2. Len(model) \in Nat
  BY DEF TypeInv, CycleType, TypeOK, IsSequence
<1>3. StageInv'
  BY <1>2 DEF StartApplying, matchVars, TypeInv, CycleType, StageInv, Loaded, Working
<1> QED
  BY <1>1, <1>3 DEF StartApplying, TypeInv, CycleType, Working

LEMMA PublishingSteps ==
  ASSUME TypeInv, NEW id \in Ident,
         UpdateIngressLoadBalancer(id) \/ PatchFails(id)
  PROVE  /\ CycleType' /\ ModelInv' /\ UserType' /\ BudgetType' /\ idle' = FALSE
         /\ Dequeue(id) /\ UNCHANGED <<cloudVars, matchVars>>
         /\ \A x \in Ident :
              hostname'[x] = hostname[x] \/ (x = id /\ hostname'[x] = Current.stack)
<1>1. /\ Dequeue(id) /\ UNCHANGED <<matchVars, view, firstRun, rgSupport>>
      /\ UNCHANGED <<kube, alarms, certs, cloudVars>> /\ idle' = FALSE
  BY DEF UpdateIngressLoadBalancer, PatchFails, Dequeue, kubeVars
<1>2. BudgetType'
  BY FaultBudget
  DEF UpdateIngressLoadBalancer, PatchFails, TypeInv, BudgetType, budget
<1>3. \/ UNCHANGED hostname
      \/ hostname' = [hostname EXCEPT ![id] = Current.stack]
  BY DEF UpdateIngressLoadBalancer, PatchFails, kubeVars
<1>4. Current.stack \in StackName \cup {None}
  <2>1. at \in DOMAIN model
    BY <1>1 DEF Dequeue, TypeInv, CycleType, StageInv
  <2> QED
    BY <2>1 DEF TypeInv, CycleType, TypeOK, IsLB, Current
<1>5. UserType'
  BY <1>1, <1>3, <1>4 DEF TypeInv, UserType
<1> QED
  BY <1>1, <1>2, <1>3, <1>5, DequeueStep DEF TypeInv, UserType

LEMMA InitialTypes == SystemInit => TypeInv
<1> SUFFICES ASSUME SystemInit PROVE TypeInv
  OBVIOUS
<1>1. UserType /\ BudgetType /\ idle \in BOOLEAN
  <2>1. PICK known \in SUBSET Ident : kube \in [known -> Resources]
    BY DEF SystemInit
  <2>2. PartialFunction(kube, Ident, Resources)
    BY <2>1 DEF PartialFunction
  <2>3. hostname \in [Ident -> StackName \cup {None}]
    BY DEF SystemInit, Installed
  <2>4. certs \subseteq Cert /\ alarms \in Alarms /\ idle \in BOOLEAN
    BY DEF SystemInit, Installed
  <2>5. changes \in 0 .. MaxChanges /\ faults \in 0 .. MaxFaults
    BY ControllerAssumption DEF SystemInit, Installed
  <2> QED
    BY <2>2, <2>3, <2>4, <2>5 DEF UserType, BudgetType
<1>2. CloudType
  BY EmptyCycle, ControllerAssumption
  DEF SystemInit, Installed, CloudType, EmptyMap
<1>3. CycleType
  BY EmptyCycle
  DEF SystemInit, Installed, CycleType, TypeOK, StageInv, Working
<1>4. ModelInv
  BY EmptyCycle DEF SystemInit, Installed, ModelInv, IInv, DistinctStacks
<1> QED
  BY <1>1, <1>2, <1>3, <1>4 DEF TypeInv

LEMMA TypeStep == TypeInv /\ [SystemNext]_vars => TypeInv'
<1> SUFFICES ASSUME TypeInv, [SystemNext]_vars PROVE TypeInv'
  OBVIOUS
<1>0. /\ UNCHANGED <<kubeVars, certs>> => UserType'
      /\ UNCHANGED cloudVars => CloudType'
      /\ UNCHANGED budget => BudgetType'
  BY DEF TypeInv, UserType, CloudType, BudgetType, kubeVars, cloudVars, budget
<1>1. ASSUME UserStep PROVE TypeInv'
  BY <1>0, <1>1, UserSteps, KeptCycle DEF TypeInv
<1>2. ASSUME NEW s \in StackName, CloudProgress(s) \/ CloudFailure(s)
      PROVE  TypeInv'
  BY <1>0, <1>2, CloudSteps, KeptCycle DEF TypeInv
<1>3. ASSUME Tick PROVE TypeInv'
  BY <1>0, <1>3, TickStep DEF Tick, TypeInv
<1>4. ASSUME Wake \/ ListResources \/ FindManagedStacks \/ GetStackLBStates
             \/ (GetCertificates /\ certs # {}) \/ GetCloudWatchAlarms
      PROVE  TypeInv'
  BY <1>0, <1>4, ReadingSteps DEF TypeInv
<1>5. ASSUME Ends PROVE TypeInv'
  BY <1>0, <1>5, EndingSteps DEF TypeInv
<1>6. ASSUME BuildModel PROVE TypeInv'
  BY <1>0, <1>6, BuildStep DEF TypeInv, BuildModel
<1>7. ASSUME MatchResource PROVE TypeInv'
  BY <1>0, <1>7, MatchStep DEF TypeInv, MatchResource
<1>8. ASSUME StartApplying PROVE TypeInv'
  BY <1>0, <1>8, StartStep DEF TypeInv, StartApplying
<1>9. ASSUME Applies PROVE TypeInv'
  BY <1>0, <1>9, ApplyingSteps DEF TypeInv
<1>10. ASSUME NEW id \in Ident, UpdateIngressLoadBalancer(id) \/ PatchFails(id)
       PROVE  TypeInv'
  BY <1>0, <1>10, PublishingSteps DEF TypeInv
<1>11. ASSUME UNCHANGED vars PROVE TypeInv'
  BY <1>0, <1>11, KeptCycle DEF vars, TypeInv
<1>12. \/ UserStep \/ Tick \/ Ends \/ BuildModel \/ MatchResource \/ StartApplying
       \/ Applies \/ UNCHANGED vars
       \/ Wake \/ ListResources \/ FindManagedStacks \/ GetStackLBStates
       \/ (GetCertificates /\ certs # {}) \/ GetCloudWatchAlarms
       \/ \E s \in StackName : CloudProgress(s) \/ CloudFailure(s)
       \/ \E id \in Ident : UpdateIngressLoadBalancer(id) \/ PatchFails(id)
  BY DEF SystemNext, PollStep, PollFailure, Ends, Applies
<1> QED
  BY <1>1, <1>2, <1>3, <1>4, <1>5, <1>6, <1>7, <1>8, <1>9, <1>10, <1>11, <1>12

LEMMA TypesKept == SystemSpec => []TypeInv
BY InitialTypes, TypeStep, PTL DEF SystemSpec

(* No order of the calls of a cycle, of the changes of users, the work of  *)
(* CloudFormation and the failures makes the controller write a stack that *)
(* is none, or lets it work on a load balancer that is none.               *)
THEOREM SystemTypeCorrect == SystemSpec => []SystemTypeOK
<1>1. TypeInv => SystemTypeOK
  <2> SUFFICES ASSUME TypeInv PROVE SystemTypeOK
    OBVIOUS
  <2>1. at \in 0 .. Len(model) + 1 /\ (pc = "publish" => at \in DOMAIN model /\ queue # {})
    BY DEF TypeInv, CycleType, StageInv, TypeOK, IsSequence
  <2> QED
    BY <2>1 DEF SystemTypeOK, TypeInv, UserType, CloudType, CycleType, BudgetType
<1> QED
  BY <1>1, TypesKept, PTL

-----------------------------------------------------------------------------
(* What was read of a stack that the cycle has not come to yet             *)

(* The cycle has not worked on stack s yet.                                *)
Pending(s) ==
  /\ s \in DOMAIN snap
  /\ \A i \in DOMAIN model :
       i < at \/ (i = at /\ pc = "publish") => model[i].stack # s

(* Nobody but the controller changes a complete stack, and CloudFormation  *)
(* changes the certificates of a stack only when it takes an update back.  *)
SnapInv ==
  \A s \in DOMAIN snap : Pending(s) =>
    /\ IsComplete(snap[s]) => s \in DOMAIN stacks /\ stacks[s] = snap[s]
    /\ snap[s].status # "updating" /\ s \in DOMAIN stacks
         => stacks[s].status # "updating" /\ stacks[s].certs = snap[s].certs

LEMMA PendingKept ==
  ASSUME UNCHANGED <<snap, model, at, pc>>, NEW s
  PROVE  Pending(s)' <=> Pending(s)
BY DEF Pending

LEMMA PendingBeforeApply ==
  ASSUME TypeInv, pc \notin {"apply", "publish"}, NEW s
  PROVE  Pending(s) <=> s \in DOMAIN snap
BY DEF TypeInv, CycleType, StageInv, TypeOK, IsSequence, Pending

LEMMA PendingAfterApply ==
  ASSUME TypeInv, pc = "apply", at <= Len(model), NextLB \/ Publish,
         UNCHANGED <<snap, model>>, NEW s, Pending(s)'
  PROVE  Pending(s) /\ s # Current.stack
<1>1. at \in DOMAIN model /\ at \in Nat /\ DOMAIN model \subseteq Nat
  BY CurrentFacts DEF TypeInv, CycleType, StageInv, TypeOK, IsSequence
<1>2. \/ pc' = "apply" /\ at' = at + 1
      \/ pc' = "publish" /\ at' = at
  BY DEF NextLB, Publish
<1> QED
  BY <1>1, <1>2 DEF Pending, Current

LEMMA PendingAfterPublish ==
  ASSUME TypeInv, NEW id, Dequeue(id), UNCHANGED <<snap, model>>, NEW s
  PROVE  Pending(s)' <=> Pending(s)
<1>1. at \in Nat /\ DOMAIN model \subseteq Nat /\ pc = "publish"
  BY DEF Dequeue, TypeInv, CycleType, StageInv, TypeOK, IsSequence
<1>2. \/ pc' = "apply" /\ at' = at + 1
      \/ pc' = "publish" /\ at' = at
  BY <1>1 DEF Dequeue
<1> QED
  BY <1>1, <1>2 DEF Pending

(* The stack that is worked on has not been worked on before.              *)
LEMMA CurrentPending ==
  ASSUME TypeInv, pc = "apply", at <= Len(model), Current.stack # None
  PROVE  Pending(Current.stack) /\ Current.stack \in StackName
<1>1. at \in DOMAIN model /\ FromSnap(Current) /\ DOMAIN snap \subseteq StackName
  BY CurrentFacts DEF TypeInv, CycleType, TypeOK, IsSnapshot
<1>2. at \in Nat /\ DOMAIN model \subseteq Nat
  BY <1>1 DEF TypeInv, CycleType, TypeOK, IsSequence
<1>3. ASSUME NEW i \in DOMAIN model, i < at PROVE model[i].stack # Current.stack
  BY <1>1, <1>2, <1>3 DEF TypeInv, ModelInv, DistinctStacks, Current
<1> QED
  BY <1>1, <1>3 DEF Pending, FromSnap

(* Working on a load balancer changes no stack but its own.                *)
LEMMA OthersKept ==
  ASSUME TypeInv, Applies, NEW s \in DOMAIN snap, s # Current.stack
  PROVE  /\ s \in DOMAIN stacks' <=> s \in DOMAIN stacks
         /\ s \in DOMAIN stacks => stacks'[s] = stacks[s]
<1>1. CASE CreateStack
  BY <1>1, CreateStep DEF Creates, Unused
<1>2. CASE UpdateStack
  BY <1>2, UpdateStep DEF Updates
<1>3. CASE DeleteStack
  BY <1>3, DeleteStep DEF Deletes
<1>4. CASE Ready \/ StackCallFails \/ QuotaExhausted
  BY <1>4 DEF Ready, StackCallFails, QuotaExhausted, cloudVars
<1> QED
  BY <1>1, <1>2, <1>3, <1>4 DEF Applies

LEMMA SnapKept ==
  ASSUME SnapInv, UNCHANGED snap,
         ASSUME NEW s \in DOMAIN snap, Pending(s)'
         PROVE  /\ Pending(s)
                /\ s \in DOMAIN stacks' <=> s \in DOMAIN stacks
                /\ s \in DOMAIN stacks => stacks'[s] = stacks[s]
  PROVE  SnapInv'
BY DEF SnapInv

(* The steps of the controller that leave the stacks and what was read of  *)
(* them as they are, outside of the work on the model.                     *)
Quietly ==
  \/ Wake \/ ListResources \/ GetStackLBStates
  \/ (GetCertificates /\ certs # {}) \/ GetCloudWatchAlarms
  \/ BuildModel \/ MatchResource \/ StartApplying

LEMMA QuietSteps ==
  ASSUME TypeInv, Quietly
  PROVE  /\ UNCHANGED <<snap, stacks, previous, hostname>>
         /\ pc \notin {"apply", "publish"} /\ pc' # "publish"
         /\ TypeInv'
         /\ \A s : Pending(s)' <=> Pending(s)
<1>1. UNCHANGED <<snap, stacks, previous, hostname>>
  BY DEF Quietly, Wake, ListResources, GetStackLBStates, GetCertificates,
         GetCloudWatchAlarms, BuildModel, MatchResource, Place, PlaceClusterLocal,
         SkipWithoutCertificate, PlaceOnFirstFit, PlaceOnNew, StartApplying,
         inputVars, matchVars, cycleVars, cloudVars, kubeVars
<1>2. /\ pc \notin {"apply", "publish"} /\ pc' # "publish"
      /\ pc' = "apply" => at' = 1
  BY DEF Quietly, Wake, ListResources, GetStackLBStates, GetCertificates,
         GetCloudWatchAlarms, BuildModel, MatchResource, StartApplying
<1>3. [SystemNext]_vars
  BY DEF Quietly, SystemNext, PollStep
<1>4. TypeInv'
  BY <1>3, TypeStep
<1>5. ASSUME NEW s PROVE Pending(s)' <=> s \in DOMAIN snap'
  BY <1>2, <1>4 DEF TypeInv, CycleType, StageInv, TypeOK, IsSequence, Pending
<1>6. ASSUME NEW s PROVE Pending(s) <=> s \in DOMAIN snap
  BY <1>2, PendingBeforeApply
<1> QED
  BY <1>1, <1>2, <1>4, <1>5, <1>6

(* The cases of a step, as the proofs below distinguish them.              *)
LEMMA StepCases ==
  ASSUME [SystemNext]_vars
  PROVE  \/ UserStep \/ Tick \/ Ends \/ Quietly \/ FindManagedStacks \/ Applies
         \/ UNCHANGED vars
         \/ \E s \in StackName : CloudProgress(s) \/ CloudFailure(s)
         \/ \E id \in Ident : UpdateIngressLoadBalancer(id) \/ PatchFails(id)
BY DEF SystemNext, PollStep, PollFailure, Ends, Applies, Quietly

LEMMA SnapStep ==
  ASSUME TypeInv, SnapInv, [SystemNext]_vars
  PROVE  SnapInv'
<1>1. ASSUME UserStep \/ UNCHANGED vars PROVE SnapInv'
  <2>1. UNCHANGED <<snap, model, at, pc, stacks>>
    BY <1>1, UserSteps DEF cloudVars, cycleVars, matchVars, vars
  <2> QED
    BY <2>1, PendingKept DEF SnapInv
<1>2. ASSUME NEW s \in StackName, CloudProgress(s) \/ CloudFailure(s)
      PROVE  SnapInv'
  <2>1. CloudMoves /\ UNCHANGED <<snap, model, at, pc>>
    BY <1>2, CloudSteps DEF TypeInv, cycleVars, matchVars
  <2>2. \A t \in DOMAIN stacks : t \in DOMAIN previous => stacks[t].status = "updating"
    BY DEF TypeInv, CloudType
  <2> QED
    BY <2>1, <2>2, PendingKept DEF SnapInv, CloudMoves
<1>3. ASSUME Tick PROVE SnapInv'
  <2>1. /\ stacks' = Aged(stacks) /\ snap' = Aged(snap)
        /\ DOMAIN stacks' = DOMAIN stacks /\ DOMAIN snap' = DOMAIN snap
        /\ UNCHANGED <<at, pc>>
    BY <1>3, AgedSnapshot DEF Tick, TypeInv, CloudType, CycleType, TypeOK
  <2>2. \A t : Pending(t)' <=> Pending(t)
    BY <1>3, <2>1, TickStep DEF Pending
  <2>3. /\ \A t \in DOMAIN snap : snap'[t] = [snap[t] EXCEPT !.certs = Older(@)]
        /\ \A t \in DOMAIN stacks : stacks'[t] = [stacks[t] EXCEPT !.certs = Older(@)]
    BY <2>1 DEF Aged
  <2>4. /\ \A t \in DOMAIN snap : snap'[t].status = snap[t].status
        /\ \A t \in DOMAIN stacks : stacks'[t].status = stacks[t].status
    BY <2>1, AgedSnapshot DEF TypeInv, CloudType, CycleType, TypeOK
  <2>5. /\ \A t \in DOMAIN snap : snap'[t].certs = Older(snap[t].certs)
        /\ \A t \in DOMAIN stacks : stacks'[t].certs = Older(stacks[t].certs)
    BY <2>1, AgedSnapshot DEF TypeInv, CloudType, CycleType, TypeOK
  <2> QED
    BY <2>1, <2>2, <2>3, <2>4, <2>5 DEF SnapInv, IsComplete
<1>4. ASSUME Ends PROVE SnapInv'
  <2>1. DOMAIN snap' = {}
    BY <1>4, EndingSteps DEF ForgetCycle, EmptyMap
  <2> QED
    BY <2>1 DEF SnapInv
<1>5. ASSUME Quietly PROVE SnapInv'
  BY <1>5, QuietSteps DEF SnapInv
<1>6. ASSUME FindManagedStacks PROVE SnapInv'
  BY <1>6 DEF FindManagedStacks, cloudVars, SnapInv
<1>7. ASSUME Applies PROVE SnapInv'
  <2>1. /\ pc = "apply" /\ at <= Len(model) /\ (NextLB \/ Publish)
        /\ UNCHANGED <<snap, model>>
    BY <1>7, ApplyingSteps DEF matchVars
  <2>2. ASSUME NEW s \in DOMAIN snap, Pending(s)'
        PROVE  /\ Pending(s)
               /\ s \in DOMAIN stacks' <=> s \in DOMAIN stacks
               /\ s \in DOMAIN stacks => stacks'[s] = stacks[s]
    BY <1>7, <2>1, <2>2, PendingAfterApply, OthersKept
  <2> QED
    BY <2>1, <2>2, SnapKept
<1>8. ASSUME NEW id \in Ident, UpdateIngressLoadBalancer(id) \/ PatchFails(id)
      PROVE  SnapInv'
  <2>1. Dequeue(id) /\ UNCHANGED <<snap, model, stacks>>
    BY <1>8, PublishingSteps DEF cloudVars, matchVars
  <2> QED
    BY <2>1, PendingAfterPublish DEF SnapInv
<1> QED
  BY <1>1, <1>2, <1>3, <1>4, <1>5, <1>6, <1>7, <1>8, StepCases

LEMMA SnapshotKept == SystemSpec => [](TypeInv /\ SnapInv)
<1>1. SystemInit => SnapInv
  BY DEF SystemInit, Installed, SnapInv, EmptyMap
<1> QED
  BY <1>1, InitialTypes, TypeStep, SnapStep, PTL DEF SystemSpec

-----------------------------------------------------------------------------
(* Certificates are kept *)

MayLeave(s, c) ==
  \/ stacks[s].certs[c] = 0
  \/ c \notin available
  \/ s \in DOMAIN previous
  \/ firstRun /\ s \in DOMAIN snap /\ snap[s].status = "updating"

(* What UpdateStack writes leaves out only what has run out.               *)
LEMMA UpdateLeaves ==
  ASSUME TypeInv, SnapInv, StatusIs("update"),
         Current.stack \in DOMAIN stacks,
         NEW c \in DOMAIN stacks[Current.stack].certs,
         c \notin DOMAIN CertificateARNs(Current)
  PROVE  MayLeave(Current.stack, c)
<1> DEFINE s == Current.stack
<1>1. /\ pc = "apply" /\ at <= Len(model) /\ s # None
      /\ firstRun \/ IsComplete(snap[s])
  BY StatusFacts
<1>2. Pending(s) /\ s \in DOMAIN snap /\ FromSnap(Current)
  BY <1>1, CurrentPending, CurrentFacts DEF FromSnap
<1>3. CASE snap[s].status = "updating"
  BY <1>1, <1>2, <1>3 DEF MayLeave, IsComplete
<1>4. CASE snap[s].status # "updating" /\ c \in available
  <2>1. stacks[s].certs = snap[s].certs
    BY <1>2, <1>4 DEF SnapInv
  <2>2. c \in DOMAIN Current.existing /\ Current.existing[c] = stacks[s].certs[c]
    BY <1>1, <1>2, <1>4, <2>1 DEF FromSnap
  <2>3. c \notin Needed(Current) /\ Current.existing[c] = 0
    BY <2>2 DEF CertificateARNs
  <2> QED
    BY <2>2, <2>3 DEF MayLeave
<1>5. CASE c \notin available
  BY <1>5 DEF MayLeave
<1> QED
  BY <1>3, <1>4, <1>5

LEMMA GraceStep ==
  ASSUME TypeInv, SnapInv, [SystemNext]_vars,
         NEW s \in DOMAIN stacks \cap DOMAIN stacks',
         NEW c \in DOMAIN stacks[s].certs \ DOMAIN stacks'[s].certs
  PROVE  MayLeave(s, c)
<1>1. ASSUME UNCHANGED stacks PROVE FALSE
  BY <1>1
<1>2. ASSUME UserStep \/ Ends \/ Quietly \/ FindManagedStacks \/ UNCHANGED vars
      PROVE  FALSE
  BY <1>1, <1>2, UserSteps, EndingSteps, QuietSteps
  DEF FindManagedStacks, cloudVars, vars
<1>3. ASSUME NEW id \in Ident, UpdateIngressLoadBalancer(id) \/ PatchFails(id)
      PROVE  FALSE
  BY <1>1, <1>3, PublishingSteps DEF cloudVars
<1>4. ASSUME Tick PROVE FALSE
  <2>1. DOMAIN stacks'[s].certs = DOMAIN stacks[s].certs
    BY <1>4, AgedSnapshot DEF Tick, TypeInv, CloudType
  <2> QED
    BY <2>1
<1>5. ASSUME NEW t \in StackName, CloudProgress(t) \/ CloudFailure(t)
      PROVE  MayLeave(s, c)
  BY <1>5, CloudSteps DEF TypeInv, CloudMoves, MayLeave
<1>6. ASSUME Applies PROVE MayLeave(s, c)
  <2>1. CASE CreateStack
    BY <1>1, <2>1, CreateStep DEF Creates, Unused
  <2>2. CASE DeleteStack
    <3>1. CASE s = Current.stack
      <4>1. IsStack(stacks[s]) /\ stacks'[s] = [stacks[s] EXCEPT !.status = "deleting"]
        BY <2>2, <3>1, DeleteStep DEF Deletes, TypeInv, CloudType, IsSnapshot
      <4>2. stacks'[s].certs = stacks[s].certs
        BY <4>1, ChangedStatus DEF Status
      <4> QED
        BY <4>2
    <3>2. CASE s # Current.stack
      BY <2>2, <3>2, DeleteStep DEF Deletes
    <3> QED
      BY <3>1, <3>2
  <2>3. CASE Ready \/ StackCallFails \/ QuotaExhausted
    BY <1>1, <2>3 DEF Ready, StackCallFails, QuotaExhausted, cloudVars
  <2>4. CASE UpdateStack
    <3>1. PICK owner : Updates(owner)
      BY <1>1, <2>4, UpdateStep
    <3>2. CASE s = Current.stack
      <4>1. stacks'[s].certs = CertificateARNs(Current)
        BY <3>1, <3>2 DEF Updates, UpdatedStack
      <4>2. StatusIs("update")
        BY <2>4 DEF UpdateStack
      <4> QED
        BY <3>2, <4>1, <4>2, UpdateLeaves
    <3>3. CASE s # Current.stack
      BY <3>1, <3>3 DEF Updates
    <3> QED
      BY <3>2, <3>3
  <2> QED
    BY <1>6, <2>1, <2>2, <2>3, <2>4 DEF Applies
<1> QED
  BY <1>2, <1>3, <1>4, <1>5, <1>6, StepCases

(* However the controller is interrupted, whatever it has read and however *)
(* many updates fail: no certificate leaves a stack before its time, but   *)
(* for the cases GracePeriod names.                                        *)
THEOREM CertificatesKept == SystemSpec => GracePeriod
<1>1. TypeInv /\ SnapInv /\ [SystemNext]_vars =>
        [\A s \in DOMAIN stacks \cap DOMAIN stacks' :
           \A c \in DOMAIN stacks[s].certs \ DOMAIN stacks'[s].certs :
             \/ stacks[s].certs[c] = 0
             \/ c \notin available
             \/ s \in DOMAIN previous
             \/ firstRun /\ s \in DOMAIN snap /\ snap[s].status = "updating"]_vars
  BY GraceStep DEF MayLeave
<1> QED
  BY <1>1, SnapshotKept, PTL DEF SystemSpec, GracePeriod

-----------------------------------------------------------------------------
(* Hostnames are exclusive *)

(* Stack s serves resource id, now and if its update is taken back.        *)
OwnerFits(s, id) ==
  /\ s \in DOMAIN stacks => stacks[s].owner \in {None, NameOf[id]}
  /\ s \in DOMAIN previous => previous[s].owner \in {None, NameOf[id]}

OwnerInv ==
  /\ \A id \in Ident : OwnerFits(hostname[id], id)
  /\ pc = "publish" => \A id \in queue : OwnerFits(Current.stack, id)
  /\ \A id \in Ident :
       Pending(hostname[id]) => snap[hostname[id]].owner \in {None, NameOf[id]}

(* The owner of a load balancer that has a stack is that of the stack, or  *)
(* it has become a shared one.                                             *)
LEMMA OwnersOfStack ==
  ASSUME NEW lb, IsLB(lb), LBInv(lb), lb.stack # None, NEW owner \in Owners(lb)
  PROVE  owner \in {None, lb.owner}
BY DEF LBInv, SharingKept, OwnershipKept, Owners

LEMMA NoStackFits ==
  ASSUME CloudType, NEW id
  PROVE  OwnerFits(None, id)
BY ConstantsAssumption DEF CloudType, IsSnapshot, OwnerFits

LEMMA FitsWhileCloudMoves ==
  ASSUME CloudMoves, NEW s, NEW id, OwnerFits(s, id)
  PROVE  OwnerFits(s, id)'
BY DEF CloudMoves, OwnerFits, SameStack

LEMMA FitsAfterTick ==
  ASSUME CloudType, Tick, NEW s, NEW id, OwnerFits(s, id)
  PROVE  OwnerFits(s, id)'
<1>1. /\ DOMAIN stacks' = DOMAIN stacks /\ DOMAIN previous' = DOMAIN previous
      /\ \A t \in DOMAIN stacks : SameStack(stacks[t], stacks'[t])
      /\ \A t \in DOMAIN previous : SameStack(previous[t], previous'[t])
  BY AgedSnapshot DEF Tick, CloudType
<1> QED
  BY <1>1 DEF OwnerFits, SameStack

(* Working on a load balancer leaves its stack to those it is published    *)
(* for, and nobody is published on a new one.                              *)
LEMMA FitsAfterApply ==
  ASSUME TypeInv, Applies, NEW id \in Ident, NEW s, OwnerFits(s, id),
         s \notin Unused,
         Pending(s) => snap[s].owner \in {None, NameOf[id]}
  PROVE  OwnerFits(s, id)'
<1>1. CASE CreateStack
  BY <1>1, CreateStep DEF Creates, OwnerFits
<1>2. CASE UpdateStack
  <2>1. CASE UNCHANGED <<stacks, previous>>
    BY <2>1 DEF OwnerFits
  <2>2. ASSUME NEW owner, Updates(owner) PROVE OwnerFits(s, id)'
    <3>1. CASE s # Current.stack
      BY <2>2, <3>1 DEF Updates, OwnerFits
    <3>2. CASE s = Current.stack
      <4>1. /\ pc = "apply" /\ at <= Len(model) /\ s # None
        BY <1>2, <3>2, StatusFacts DEF UpdateStack
      <4>2. Pending(s) /\ IsLB(Current) /\ LBInv(Current) /\ FromSnap(Current)
        BY <3>2, <4>1, CurrentPending, CurrentFacts
      <4>3. owner \in {None, snap[s].owner}
        BY <2>2, <3>2, <4>1, <4>2, OwnersOfStack DEF Updates, FromSnap
      <4>4. /\ stacks'[s].owner = owner /\ previous'[s] = stacks[s]
            /\ s \in DOMAIN stacks
        BY <2>2, <3>2 DEF Updates, UpdatedStack
      <4> QED
        BY <4>2, <4>3, <4>4 DEF OwnerFits
    <3> QED
      BY <3>1, <3>2
  <2> QED
    BY <1>2, <2>1, <2>2, UpdateStep
<1>3. CASE DeleteStack
  <2>1. CASE s # Current.stack
    BY <1>3, <2>1, DeleteStep DEF Deletes, Dropped, OwnerFits
  <2>2. CASE s = Current.stack
    <3>1. /\ s \notin DOMAIN previous' /\ DOMAIN stacks' = DOMAIN stacks
          /\ s \in DOMAIN stacks =>
               stacks'[s] = [stacks[s] EXCEPT !.status = "deleting"]
      BY <1>3, <2>2, DeleteStep DEF Deletes, Dropped
    <3>2. s \in DOMAIN stacks => stacks'[s].owner = stacks[s].owner
      BY <3>1, ChangedStatus DEF TypeInv, CloudType, IsSnapshot, Status, SameStack
    <3> QED
      BY <3>1, <3>2 DEF OwnerFits
  <2> QED
    BY <2>1, <2>2
<1>4. CASE Ready \/ StackCallFails \/ QuotaExhausted
  BY <1>4 DEF Ready, StackCallFails, QuotaExhausted, cloudVars, OwnerFits
<1> QED
  BY <1>1, <1>2, <1>3, <1>4 DEF Applies

(* The resources a load balancer will be published for are those of its    *)
(* owner.                                                                  *)
LEMMA PublishedFit ==
  ASSUME TypeInv, SnapInv, pc = "apply", at <= Len(model), NEW id \in ToPublish
  PROVE  /\ id \in Ident /\ OwnerFits(Current.stack, id)
         /\ Current.stack \notin Unused
         /\ Pending(Current.stack) => snap[Current.stack].owner \in {None, NameOf[id]}
<1>1. /\ IsLB(Current) /\ LBInv(Current) /\ FromSnap(Current)
  BY CurrentFacts
<1>2. id \in Members(Current) /\ id \in Ident
  BY <1>1 DEF ToPublish, Members, IsLB
<1>3. CASE Current.clusterLocal
  <2>1. Current.stack = None
    BY <1>1, <1>3 DEF LBInv, SharingKept
  <2>2. None \notin Unused /\ ~Pending(None)
    BY ConstantsAssumption
    DEF Unused, Pending, TypeInv, CycleType, TypeOK, IsSnapshot
  <2> QED
    BY <1>2, <2>1, <2>2, NoStackFits DEF TypeInv
<1>4. CASE ~Current.clusterLocal
  <2> DEFINE s == Current.stack
  <2>1. s # None /\ IsComplete(snap[s])
    BY <1>4 DEF ToPublish
  <2>2. Pending(s) /\ s \in DOMAIN snap
    BY <1>1, <2>1, CurrentPending DEF FromSnap
  <2>3. s \in DOMAIN stacks /\ stacks[s] = snap[s]
    BY <2>1, <2>2 DEF SnapInv
  <2>4. s \notin DOMAIN previous
    BY <2>1, <2>3 DEF TypeInv, CloudType, IsComplete
  <2>5. snap[s].owner \in {None, NameOf[id]}
    BY <1>1, <1>2, <2>1 DEF LBInv, OwnershipKept, FromSnap
  <2> QED
    BY <1>2, <2>3, <2>4, <2>5 DEF OwnerFits, Unused
<1> QED
  BY <1>3, <1>4

LEMMA OwnerStep ==
  ASSUME TypeInv, SnapInv, OwnerInv, [SystemNext]_vars
  PROVE  OwnerInv'
<1>1. ASSUME UserStep PROVE OwnerInv'
  <2>1. /\ UNCHANGED <<snap, model, at, pc, queue, stacks, previous>>
        /\ \A id \in Ident : hostname'[id] \in {hostname[id], None}
    BY <1>1, UserSteps DEF cloudVars, cycleVars, matchVars
  <2>2. \A id : OwnerFits(None, id) /\ ~Pending(None)
    BY NoStackFits, ConstantsAssumption
    DEF TypeInv, CycleType, TypeOK, IsSnapshot, Pending
  <2>3. \A s, id : OwnerFits(s, id)' <=> OwnerFits(s, id)
    BY <2>1 DEF OwnerFits
  <2> QED
    BY <2>1, <2>2, <2>3, PendingKept DEF OwnerInv, Current
<1>2. ASSUME UNCHANGED vars PROVE OwnerInv'
  <2>1. UNCHANGED <<snap, model, at, pc, queue, stacks, previous, hostname>>
    BY <1>2 DEF vars, cloudVars, cycleVars, matchVars, kubeVars
  <2>2. \A s, id : OwnerFits(s, id)' <=> OwnerFits(s, id)
    BY <2>1 DEF OwnerFits
  <2> QED
    BY <2>1, <2>2, PendingKept DEF OwnerInv, Current
<1>3. ASSUME NEW s \in StackName, CloudProgress(s) \/ CloudFailure(s)
      PROVE  OwnerInv'
  <2>1. CloudMoves /\ UNCHANGED <<snap, model, at, pc, queue, hostname>>
    BY <1>3, CloudSteps DEF TypeInv, cycleVars, matchVars, kubeVars
  <2> QED
    BY <2>1, PendingKept, FitsWhileCloudMoves DEF OwnerInv, Current
<1>4. ASSUME Tick PROVE OwnerInv'
  <2>1. /\ UNCHANGED <<at, pc, queue, hostname>> /\ snap' = Aged(snap)
        /\ DOMAIN snap' = DOMAIN snap
        /\ \A s \in DOMAIN snap : SameStack(snap[s], snap'[s])
    BY <1>4, AgedSnapshot DEF Tick, kubeVars, TypeInv, CycleType, TypeOK
  <2>2. \A s : Pending(s)' <=> Pending(s)
    BY <1>4, <2>1, TickStep DEF Pending
  <2>3. pc = "publish" => Current'.stack = Current.stack
    BY <1>4, <2>1, TickStep DEF Current, TypeInv, CycleType, StageInv
  <2>4. \A s, id : OwnerFits(s, id) => OwnerFits(s, id)'
    BY <1>4, FitsAfterTick DEF TypeInv
  <2>5. \A id \in Ident :
          Pending(hostname[id])' => snap'[hostname[id]].owner \in {None, NameOf[id]}
    BY <2>1, <2>2 DEF OwnerInv, SameStack, Pending
  <2> QED
    BY <2>1, <2>3, <2>4, <2>5 DEF OwnerInv
<1>5. ASSUME Ends PROVE OwnerInv'
  <2>1. /\ DOMAIN snap' = {} /\ pc' = "sleep" /\ UNCHANGED <<stacks, previous, hostname>>
    BY <1>5, EndingSteps DEF ForgetCycle, EmptyMap, cloudVars, kubeVars
  <2> QED
    BY <2>1 DEF OwnerInv, OwnerFits, Pending
<1>6. ASSUME Quietly PROVE OwnerInv'
  BY <1>6, QuietSteps DEF OwnerInv, OwnerFits
<1>7. ASSUME FindManagedStacks PROVE OwnerInv'
  <2>1. /\ snap' = stacks /\ UNCHANGED <<stacks, previous, hostname>> /\ pc' = "elbs"
    BY <1>7 DEF FindManagedStacks, cloudVars, kubeVars
  <2> QED
    BY <2>1 DEF OwnerInv, OwnerFits, Pending
<1>8. ASSUME Applies PROVE OwnerInv'
  <2>1. /\ pc = "apply" /\ at <= Len(model) /\ (NextLB \/ Publish)
        /\ UNCHANGED <<snap, model, hostname>>
    BY <1>8, ApplyingSteps DEF matchVars, kubeVars
  <2>2. ASSUME NEW id \in Ident PROVE OwnerFits(hostname[id], id)'
    <3> DEFINE s == hostname[id]
    <3>1. /\ OwnerFits(s, id) /\ s \notin Unused
          /\ Pending(s) => snap[s].owner \in {None, NameOf[id]}
      BY DEF OwnerInv, Unused
    <3>2. hostname'[id] = s
      BY <2>1
    <3> HIDE DEF s
    <3>3. \A x : x = s => OwnerFits(x, id)'
      BY <1>8, <3>1, FitsAfterApply
    <3> QED
      BY <3>2, <3>3
  <2>3. ASSUME pc' = "publish" PROVE \A id \in queue' : OwnerFits(Current.stack, id)'
    <3>1. queue' = ToPublish
      BY <2>1, <2>3 DEF NextLB, Publish
    <3>2. ASSUME NEW id \in ToPublish PROVE OwnerFits(Current.stack, id)'
      <4> DEFINE s == Current.stack
      <4>1. /\ id \in Ident /\ OwnerFits(s, id) /\ s \notin Unused
            /\ Pending(s) => snap[s].owner \in {None, NameOf[id]}
        BY <2>1, PublishedFit
      <4>2. Current' = Current
        BY <2>1, <2>3 DEF NextLB, Publish, Current
      <4> HIDE DEF s
      <4>3. \A x : x = s => OwnerFits(x, id)'
        BY <1>8, <4>1, FitsAfterApply
      <4> QED
        BY <4>2, <4>3 DEF s
    <3> QED
      BY <3>1, <3>2
  <2>4. ASSUME NEW id \in Ident, Pending(hostname[id])'
        PROVE  snap[hostname[id]].owner \in {None, NameOf[id]}
    BY <2>1, <2>4, PendingAfterApply DEF OwnerInv
  <2> QED
    BY <2>1, <2>2, <2>3, <2>4 DEF OwnerInv
<1>9. ASSUME NEW id \in Ident, UpdateIngressLoadBalancer(id) \/ PatchFails(id)
      PROVE  OwnerInv'
  <2>1. /\ Dequeue(id) /\ UNCHANGED <<snap, model, stacks, previous>>
        /\ \A x \in Ident :
             hostname'[x] = hostname[x] \/ (x = id /\ hostname'[x] = Current.stack)
    BY <1>9, PublishingSteps DEF cloudVars, matchVars
  <2>2. \A s, x : OwnerFits(s, x)' <=> OwnerFits(s, x)
    BY <2>1 DEF OwnerFits
  <2>3. /\ pc = "publish" /\ id \in queue /\ queue' \subseteq queue
        /\ pc' = "publish" => Current' = Current
    BY <2>1 DEF Dequeue, Current
  <2>4. ~Pending(Current.stack)
    BY <2>3 DEF Pending, Current, TypeInv, CycleType, StageInv
  <2>5. \A s : Pending(s)' <=> Pending(s)
    BY <2>1, PendingAfterPublish
  <2>6. \A x \in Ident : OwnerFits(hostname'[x], x)
    BY <2>1, <2>3 DEF OwnerInv
  <2>7. \A x \in Ident :
          Pending(hostname'[x]) => snap[hostname'[x]].owner \in {None, NameOf[x]}
    BY <2>1, <2>4 DEF OwnerInv
  <2>8. pc' = "publish" => \A x \in queue' : OwnerFits(Current.stack, x)
    BY <2>3 DEF OwnerInv
  <2> QED
    BY <2>1, <2>2, <2>3, <2>5, <2>6, <2>7, <2>8 DEF OwnerInv
<1> QED
  BY <1>1, <1>2, <1>3, <1>4, <1>5, <1>6, <1>7, <1>8, <1>9, StepCases

(* A resource is never sent to the load balancer of another: not while its *)
(* owner is changed by an update or a rollback, not by a status that was   *)
(* decided on before, and not after any number of crashes.                 *)
THEOREM HostnamesExclusive == SystemSpec => []ExclusiveHostnames
<1>1. SystemInit => OwnerInv
  <2> SUFFICES ASSUME SystemInit PROVE OwnerInv
    OBVIOUS
  <2>1. /\ \A id \in Ident : hostname[id] = None
        /\ DOMAIN stacks = {} /\ DOMAIN previous = {} /\ DOMAIN snap = {}
        /\ pc = "sleep"
    BY DEF SystemInit, Installed, EmptyMap
  <2> QED
    BY <2>1 DEF OwnerInv, OwnerFits, Pending
<1>2. TypeInv /\ OwnerInv => ExclusiveHostnames
  BY DEF TypeInv, UserType, PartialFunction, OwnerInv, OwnerFits, ExclusiveHostnames
<1> QED
  BY <1>1, <1>2, OwnerStep, SnapshotKept, PTL DEF SystemSpec

-----------------------------------------------------------------------------
(* A single stack *)

(* A stack or load balancer for resources as all of them are.              *)
Alike(x) ==
  /\ x.owner = None
  /\ \E r \in Resources :
       /\ x.class = r.class /\ x.sg = r.sg /\ x.ssl = r.ssl
       /\ x.waf = AttachGlobalACL(r).waf

SettingsInv ==
  /\ \A s \in DOMAIN stacks : Alike(stacks[s])
  /\ \A s \in DOMAIN previous : Alike(previous[s])
  /\ \A s \in DOMAIN snap : Alike(snap[s])
  /\ pc \notin Loaded => \A id \in DOMAIN listed : listed[id] \in Resources
  /\ pc \in Loaded =>
       \A id \in DOMAIN listed : \E r \in Resources : listed[id] = AttachGlobalACL(r)
  /\ \A i \in DOMAIN model :
       ~model[i].clusterLocal => Alike(model[i]) /\ model[i].shared

(* Load balancer i is still to get a stack.                                *)
Missing(i) ==
  i \in DOMAIN model /\ i >= at /\ model[i].stack = None /\ ~model[i].clusterLocal

CountInv ==
  /\ \E s : DOMAIN stacks \subseteq {s}
  /\ \A i, j \in DOMAIN model :
       ~model[i].clusterLocal /\ model[i].stack = None /\ ~model[j].clusterLocal
         => i = j
  /\ pc \in Loaded /\ DOMAIN snap # {} => \E i \in DOMAIN model : model[i].stack # None
  /\ DOMAIN snap = {} /\ (\/ pc \in {"elbs", "certs", "alarms", "build", "match"}
                         \/ \E i : Missing(i))
       => DOMAIN stacks = {}

LEMMA AlikeStacks ==
  ASSUME NEW x, NEW y, SameStack(x, y), Alike(x)
  PROVE  Alike(y)
BY DEF SameStack, Alike

LEMMA AttachedSettings ==
  ASSUME NEW r \in Resource, NEW a, a = AttachGlobalACL(r)
  PROVE  /\ a \in Resource /\ a.class = r.class /\ a.sg = r.sg /\ a.ssl = r.ssl
         /\ a.shared = r.shared
BY ConstantsAssumption DEF AttachGlobalACL, Resource

(* Every load balancer takes every resource.                               *)
LEMMA AllAccepted ==
  ASSUME Uniform, NEW lb, IsLB(lb), ~lb.clusterLocal, Configured(lb), Alike(lb),
         NEW id, NEW r \in Resources, NEW a, a = AttachGlobalACL(r),
         NEW wanted \in SUBSET Cert
  PROVE  Accepts(lb, id, a, wanted)
<1>1. PICK q \in Resources : /\ lb.class = q.class /\ lb.sg = q.sg /\ lb.ssl = q.ssl
                             /\ lb.waf = AttachGlobalACL(q).waf
  BY DEF Alike
<1>2. r \in Resource /\ q \in Resource
  BY ControllerAssumption
<1>3. /\ a.class = r.class /\ a.sg = r.sg /\ a.ssl = r.ssl /\ a.shared = r.shared
      /\ r.class \in SupportedClass
  BY <1>2, AttachedSettings DEF Resource
<1>4. /\ r.shared /\ q.class = r.class /\ q.sg = r.sg /\ q.ssl = r.ssl
      /\ AttachGlobalACL(q).waf = a.waf /\ Cardinality(Cert) <= MaxCerts
  BY DEF Uniform
<1>5. Cardinality(DOMAIN lb.ingresses \cup wanted) <= MaxCerts
  <2>1. DOMAIN lb.ingresses \cup wanted \in SUBSET Cert
    BY DEF IsLB, Configured
  <2>2. /\ IsFiniteSet(DOMAIN lb.ingresses \cup wanted)
        /\ Cardinality(DOMAIN lb.ingresses \cup wanted) <= Cardinality(Cert)
    BY <2>1, ConstantsAssumption, FS_Subset
  <2>3. Cardinality(DOMAIN lb.ingresses \cup wanted) \in Nat /\ Cardinality(Cert) \in Nat
    BY <2>2, ConstantsAssumption, FS_CardinalityType
  <2> QED
    BY <1>4, <2>2, <2>3, ConstantsAssumption
<1>6. lb.owner = None
  BY DEF Alike
<1> QED
  BY <1>1, <1>3, <1>4, <1>5, <1>6 DEF Accepts

(* What matching one resource does to the model.                           *)
LEMMA UniformMatch ==
  ASSUME Uniform, TypeInv, SettingsInv, CountInv, MatchResource
  PROVE  SettingsInv' /\ CountInv'
<1>1. PICK id \in Ident : Place(id)
  BY DEF MatchResource
<1>2. /\ pc = "match" /\ UNCHANGED <<pc, at, stacks, previous, snap, listed>>
      /\ TypeOK /\ at = 0
  BY <1>1 DEF MatchResource, Place, PlaceClusterLocal, SkipWithoutCertificate,
              PlaceOnFirstFit, PlaceOnNew, cloudVars, inputVars, TypeInv, CycleType,
              StageInv
<1>3. ASSUME ~ClusterLocal(listed[id])
      PROVE  /\ \E r \in Resources : listed[id] = AttachGlobalACL(r)
             /\ listed[id].shared
  <2>1. PICK r \in Resources : listed[id] = AttachGlobalACL(r)
    BY <1>1, <1>2 DEF SettingsInv, Loaded, Place, PlaceClusterLocal, TypeOK,
         SkipWithoutCertificate, PlaceOnFirstFit, PlaceOnNew, Turn
  <2>2. r \in Resource /\ r.shared
    BY ControllerAssumption DEF Uniform
  <2> QED
    BY <2>1, <2>2, AttachedSettings
<1>4. ASSUME UNCHANGED model PROVE SettingsInv' /\ CountInv'
  BY <1>2, <1>4 DEF SettingsInv, CountInv, Alike, Missing
<1>5. ASSUME NEW i, NEW keys, Grows(i, id, keys),
             ~model[i].clusterLocal => Alike(model'[i]) /\ model'[i].shared
      PROVE  SettingsInv' /\ CountInv'
  <2>1. /\ DOMAIN model' = DOMAIN model
        /\ \A j \in DOMAIN model : /\ model'[j].stack = model[j].stack
                                   /\ model'[j].clusterLocal = model[j].clusterLocal
        /\ \A j \in DOMAIN model \ {i} : model'[j] = model[j]
    BY <1>5 DEF Grows, SameSettings
  <2>2. SettingsInv'
    BY <1>2, <1>5, <2>1 DEF SettingsInv, Alike
  <2>3. CountInv'
    BY <1>2, <2>1 DEF CountInv, Missing
  <2> QED
    BY <2>2, <2>3
<1>6. CASE PlaceClusterLocal(id)
  BY <1>2, <1>5, <1>6, StepOfClusterLocal
<1>7. CASE SkipWithoutCertificate(id)
  BY <1>4, <1>7 DEF SkipWithoutCertificate
<1>8. CASE PlaceOnFirstFit(id)
  <2>1. PICK i \in Fits(id) : /\ Grows(i, id, Wanted(id))
                             /\ model'[i].shared = listed[id].shared
                             /\ model'[i].ssl = listed[id].ssl
    BY <1>2, <1>8, StepOfFirstFit
  <2>2. PICK r \in Resources : listed[id] = AttachGlobalACL(r)
    BY <1>3, <1>8 DEF PlaceOnFirstFit
  <2>3. listed[id].shared /\ listed[id].ssl = r.ssl
    BY <1>3, <1>8, <2>2, ControllerAssumption, AttachedSettings DEF PlaceOnFirstFit
  <2>4. ASSUME Alike(model[i]) PROVE Alike(model'[i])
    <3>1. PICK q \in Resources :
            /\ model[i].class = q.class /\ model[i].sg = q.sg /\ model[i].ssl = q.ssl
            /\ model[i].waf = AttachGlobalACL(q).waf
      BY <2>4 DEF Alike
    <3>2. q.ssl = r.ssl
      BY DEF Uniform
    <3> QED
      BY <2>1, <2>3, <2>4, <3>1, <3>2 DEF Grows, SameSettings, Alike
  <2>5. ~model[i].clusterLocal => Alike(model[i])
    BY DEF Fits, SettingsInv
  <2> QED
    BY <1>5, <2>1, <2>3, <2>4, <2>5
<1>9. CASE PlaceOnNew(id)
  <2>1. Extends(id) /\ Wanted(id) \in SUBSET Cert /\ Fits(id) = {}
    BY <1>2, <1>9, StepOfNew DEF PlaceOnNew
  <2>2. PICK r \in Resources : listed[id] = AttachGlobalACL(r)
    BY <1>3, <1>9 DEF PlaceOnNew
  <2>3. ASSUME NEW i \in DOMAIN model PROVE model[i].clusterLocal
    <3>1. SUFFICES ASSUME ~model[i].clusterLocal PROVE FALSE
      OBVIOUS
    <3>2. IsLB(model[i]) /\ Configured(model[i]) /\ Alike(model[i])
      BY <1>2, <3>1 DEF TypeOK, TypeInv, ModelInv, SettingsInv
    <3>3. Accepts(model[i], id, listed[id], Wanted(id))
      BY <2>1, <2>2, <3>1, <3>2, AllAccepted
    <3> QED
      BY <2>1, <3>3 DEF Fits
  <2>4. \A i \in DOMAIN model : model[i].stack = None
    BY <2>3 DEF TypeInv, ModelInv, IInv, LBInv, SharingKept
  <2>5. DOMAIN snap = {}
    BY <1>2, <2>4 DEF CountInv, Loaded
  <2> DEFINE n == Len(model) + 1
  <2>6. /\ DOMAIN model' = DOMAIN model \cup {n}
        /\ \A j \in DOMAIN model : model'[j] = model[j]
        /\ model'[n].stack = None /\ model'[n].owner = None
        /\ model'[n].shared = listed[id].shared /\ model'[n].class = listed[id].class
        /\ model'[n].sg = listed[id].sg /\ model'[n].waf = listed[id].waf
        /\ model'[n].ssl = listed[id].ssl
    BY <2>1 DEF Extends
  <2> HIDE DEF n
  <2>7. /\ listed[id].class = r.class /\ listed[id].sg = r.sg /\ listed[id].ssl = r.ssl
        /\ listed[id].waf = AttachGlobalACL(r).waf
    BY <2>2, ControllerAssumption, AttachedSettings
  <2>8. Alike(model'[n]) /\ model'[n].shared
    BY <1>3, <1>9, <2>6, <2>7 DEF Alike, PlaceOnNew
  <2>9. SettingsInv'
    BY <1>2, <2>6, <2>8 DEF SettingsInv, Alike
  <2>10. CountInv'
    BY <1>2, <2>3, <2>5, <2>6 DEF CountInv
  <2> QED
    BY <2>9, <2>10
<1> QED
  BY <1>1, <1>6, <1>7, <1>8, <1>9 DEF Place

(* Where nothing is built or placed, CloudFormation may lose a stack.      *)
LEMMA CountKept ==
  ASSUME CountInv, UNCHANGED <<at, pc>>, DOMAIN stacks' \subseteq DOMAIN stacks,
         DOMAIN snap' = DOMAIN snap, DOMAIN model' = DOMAIN model,
         \A i \in DOMAIN model : /\ model'[i].stack = model[i].stack
                                 /\ model'[i].clusterLocal = model[i].clusterLocal
  PROVE  CountInv'
<1>1. \A i : Missing(i)' <=> Missing(i)
  BY DEF Missing
<1>2. (\E s : DOMAIN stacks \subseteq {s})'
  BY DEF CountInv
<1> QED
  BY <1>1, <1>2 DEF CountInv

LEMMA UniformBuild ==
  ASSUME Uniform, TypeInv, SettingsInv, CountInv, BuildModel
  PROVE  SettingsInv' /\ CountInv'
<1>1. /\ pc = "build" /\ pc' = "match"
      /\ UNCHANGED <<stacks, previous, snap, available, at>>
      /\ listed' = [id \in DOMAIN listed |-> AttachGlobalACL(listed[id])]
  BY DEF BuildModel, cloudVars
<1>2. /\ \A i \in DOMAIN model' : Fresh(model'[i])
      /\ DOMAIN snap # {} => \E i \in DOMAIN model' : model'[i].stack # None
  BY BuildStep
<1>3. available \in SUBSET Cert
  BY DEF TypeInv, CycleType, TypeOK
<1>4. ASSUME NEW i \in DOMAIN model', ~model'[i].clusterLocal
      PROVE  /\ Alike(model'[i]) /\ model'[i].shared /\ model'[i].stack # None
  <2> DEFINE lb == model'[i]
  <2>1. Fresh(lb) /\ ~lb.clusterLocal
    BY <1>2, <1>4
  <2> HIDE DEF lb
  <2>2. PICK s \in DOMAIN snap : /\ s \in StackName /\ IsStack(snap[s])
                                 /\ lb = FromStack(s, snap[s], available)
    BY <2>1, ClusterLocalLBFacts DEF Fresh
  <2>3. /\ lb.stack = s /\ lb.owner = snap[s].owner
        /\ lb.shared <=> lb.owner = None
    BY <1>3, <2>2, FromStackFacts
  <2>4. /\ lb.class = snap[s].class /\ lb.sg = snap[s].sg
        /\ lb.waf = snap[s].waf /\ lb.ssl = snap[s].ssl
    BY <2>2 DEF FromStack
  <2>5. Alike(snap[s])
    BY DEF SettingsInv
  <2> QED
    BY <1>4, <2>2, <2>3, <2>4, <2>5, ConstantsAssumption DEF Alike, lb
<1>5. SettingsInv'
  <2>1. \A id \in DOMAIN listed' : \E r \in Resources : listed'[id] = AttachGlobalACL(r)
    BY <1>1 DEF SettingsInv, Loaded
  <2> QED
    BY <1>1, <1>4, <2>1 DEF SettingsInv, Alike, Loaded
<1>6. CountInv'
  BY <1>1, <1>2, <1>4 DEF CountInv, Missing
<1> QED
  BY <1>5, <1>6

LEMMA UniformReading ==
  ASSUME TypeInv, SettingsInv, CountInv,
         Wake \/ ListResources \/ FindManagedStacks \/ GetStackLBStates
         \/ (GetCertificates /\ certs # {}) \/ GetCloudWatchAlarms
  PROVE  SettingsInv' /\ CountInv'
<1>1. /\ UNCHANGED <<stacks, previous, model>> /\ pc \notin Loaded /\ pc' \notin Loaded
      /\ \/ FindManagedStacks /\ snap' = stacks
         \/ /\ UNCHANGED snap
            /\ pc' \in {"elbs", "certs", "alarms", "build", "match"}
                 => pc \in {"elbs", "certs", "alarms", "build", "match"}
  BY DEF Wake, ListResources, FindManagedStacks, GetStackLBStates, GetCertificates,
         GetCloudWatchAlarms, cloudVars, cycleVars, matchVars, Loaded
<1>2. DOMAIN model = {}
  BY <1>1, NothingBuilt DEF TypeInv
<1>3. \A id \in DOMAIN listed' : listed'[id] \in Resources
  <2>1. CASE ListResources
    <3>1. listed' = [id \in {i \in DOMAIN kube : i \in RouteGroup => rgSupport'}
                       |-> kube[id]]
      BY <2>1 DEF ListResources
    <3>2. \A id \in DOMAIN kube : kube[id] \in Resources
      BY DEF TypeInv, UserType, PartialFunction
    <3> QED
      BY <3>1, <3>2
  <2>2. CASE UNCHANGED listed
    BY <1>1, <2>2 DEF SettingsInv
  <2> QED
    BY <2>1, <2>2 DEF Wake, FindManagedStacks, GetStackLBStates, GetCertificates,
                      GetCloudWatchAlarms, cycleVars, matchVars
<1>4. SettingsInv'
  BY <1>1, <1>2, <1>3 DEF SettingsInv, Alike
<1>5. CountInv'
  BY <1>1, <1>2 DEF CountInv, Missing
<1> QED
  BY <1>4, <1>5

(* The stacks that the controller writes are alike.                        *)
LEMMA WrittenAlike ==
  ASSUME Uniform, TypeInv, SettingsInv, pc = "apply", at <= Len(model),
         ~Current.clusterLocal, NEW owner \in Owners(Current)
  PROVE  Alike(CreatedStack(owner)) /\ Alike(UpdatedStack(owner))
<1>1. Alike(Current) /\ Current.shared
  BY CurrentFacts DEF SettingsInv, Current
<1>2. owner = None
  BY <1>1 DEF Owners
<1> QED
  BY <1>1, <1>2 DEF Alike, CreatedStack, UpdatedStack

(* When a load balancer is still to get a stack, there is none.            *)
LEMMA NoOtherStack ==
  ASSUME TypeInv, CountInv, pc = "apply", at <= Len(model),
         ~Current.clusterLocal, Current.stack = None
  PROVE  DOMAIN stacks = {}
<1>1. at \in DOMAIN model /\ at \in Nat
  BY CurrentFacts DEF TypeInv, CycleType, StageInv, TypeOK, IsSequence
<1>2. Missing(at)
  BY <1>1 DEF Missing, Current
<1>3. DOMAIN snap = {}
  <2>1. SUFFICES ASSUME DOMAIN snap # {} PROVE FALSE
    OBVIOUS
  <2>2. PICK i \in DOMAIN model : model[i].stack # None
    BY <2>1 DEF CountInv, Loaded
  <2>3. ~model[i].clusterLocal
    BY <2>2 DEF TypeInv, ModelInv, IInv, LBInv, SharingKept
  <2>4. at = i
    BY <1>1, <2>3 DEF CountInv, Current
  <2> QED
    BY <2>2, <2>4 DEF Current
<1> QED
  BY <1>2, <1>3 DEF CountInv

LEMMA UniformApply ==
  ASSUME Uniform, TypeInv, SettingsInv, CountInv, Applies
  PROVE  SettingsInv' /\ CountInv'
<1>1. /\ pc = "apply" /\ at <= Len(model) /\ pc' \in {"apply", "publish"}
      /\ UNCHANGED <<snap, listed, model>>
      /\ at' = at \/ at' = at + 1
  BY ApplyingSteps DEF matchVars, NextLB, Publish
<1>2. at \in DOMAIN model /\ at \in Nat /\ DOMAIN model \subseteq Nat
  BY <1>1, CurrentFacts DEF TypeInv, CycleType, StageInv, TypeOK, IsSequence
<1>3. \A i : Missing(i)' => Missing(i)
  BY <1>1, <1>2 DEF Missing
<1>4. ASSUME \A s \in DOMAIN stacks' : Alike(stacks'[s]),
             \A s \in DOMAIN previous' : Alike(previous'[s])
      PROVE  SettingsInv'
  BY <1>1, <1>4 DEF SettingsInv, Alike, Loaded
<1>5. ASSUME DOMAIN stacks' = DOMAIN stacks PROVE CountInv'
  BY <1>1, <1>3, <1>5 DEF CountInv, Loaded
<1>6. CASE CreateStack
  <2>0. PICK s \in StackName : \E owner : Creates(s, owner)
    BY <1>6, CreateStep
  <2>1. PICK owner : Creates(s, owner)
    BY <2>0
  <2>2. ~Current.clusterLocal /\ Current.stack = None
    BY <1>6, CreateStep
  <2>3. DOMAIN stacks' = {s} /\ Alike(stacks'[s]) /\ UNCHANGED previous
    BY <1>1, <2>1, <2>2, NoOtherStack, WrittenAlike DEF Creates
  <2>4. SettingsInv'
    BY <1>4, <2>3 DEF SettingsInv
  <2>5. at' = at + 1
    BY <1>6 DEF CreateStack, NextLB
  <2>6. ASSUME NEW i, Missing(i)' PROVE FALSE
    <3>1. /\ i \in DOMAIN model /\ i >= at + 1
          /\ model[i].stack = None /\ ~model[i].clusterLocal
      BY <1>1, <2>5, <2>6 DEF Missing
    <3>2. i = at
      BY <1>2, <2>2, <3>1 DEF CountInv, Current
    <3> QED
      BY <1>2, <3>1, <3>2
  <2>7. CountInv'
    BY <1>1, <2>3, <2>6 DEF CountInv, Loaded
  <2> QED
    BY <2>4, <2>7
<1>7. CASE UpdateStack
  <2>1. CASE UNCHANGED <<stacks, previous>>
    BY <1>4, <1>5, <2>1 DEF SettingsInv
  <2>2. ASSUME NEW owner, Updates(owner) PROVE SettingsInv' /\ CountInv'
    <3>1. ~Current.clusterLocal
      BY <1>7, StatusFacts DEF UpdateStack
    <3>2. /\ Alike(stacks'[Current.stack]) /\ Alike(previous'[Current.stack])
      BY <1>1, <2>2, <3>1, WrittenAlike DEF Updates, SettingsInv
    <3> QED
      BY <1>4, <1>5, <2>2, <3>2 DEF Updates, SettingsInv
  <2> QED
    BY <1>7, <2>1, <2>2, UpdateStep
<1>8. CASE DeleteStack
  <2>1. ASSUME NEW s \in DOMAIN stacks PROVE SameStack(stacks[s], stacks'[s])
    <3>1. CASE s = Current.stack
      BY <1>8, <3>1, DeleteStep, ChangedStatus
      DEF Deletes, TypeInv, CloudType, IsSnapshot, Status
    <3>2. CASE s # Current.stack
      BY <1>8, <3>2, DeleteStep DEF Deletes, SameStack
    <3> QED
      BY <3>1, <3>2
  <2>2. /\ DOMAIN stacks' = DOMAIN stacks /\ DOMAIN previous' \subseteq DOMAIN previous
        /\ \A s \in DOMAIN previous' : previous'[s] = previous[s]
    BY <1>8, DeleteStep DEF Deletes, Dropped
  <2> QED
    BY <1>4, <1>5, <2>1, <2>2, AlikeStacks DEF SettingsInv
<1>9. CASE Ready \/ StackCallFails \/ QuotaExhausted
  BY <1>4, <1>5, <1>9 DEF Ready, StackCallFails, QuotaExhausted, cloudVars, SettingsInv
<1> QED
  BY <1>6, <1>7, <1>8, <1>9 DEF Applies

LEMMA UniformStep ==
  ASSUME Uniform, TypeInv, SettingsInv, CountInv, [SystemNext]_vars
  PROVE  SettingsInv' /\ CountInv'
<1>1. ASSUME UserStep \/ UNCHANGED vars PROVE SettingsInv' /\ CountInv'
  <2>1. UNCHANGED <<stacks, previous, snap, listed, model, at, pc>>
    BY <1>1, UserSteps DEF cloudVars, cycleVars, matchVars, vars
  <2>2. SettingsInv'
    BY <2>1 DEF SettingsInv, Alike
  <2> QED
    BY <2>1, <2>2, CountKept
<1>2. ASSUME NEW s \in StackName, CloudProgress(s) \/ CloudFailure(s)
      PROVE  SettingsInv' /\ CountInv'
  <2>1. CloudMoves /\ UNCHANGED <<snap, listed, model, at, pc>>
    BY <1>2, CloudSteps DEF TypeInv, cycleVars, matchVars
  <2>2. \A t \in DOMAIN stacks' : Alike(stacks'[t])
    BY <2>1, AlikeStacks DEF CloudMoves, SettingsInv
  <2>3. SettingsInv'
    BY <2>1, <2>2 DEF CloudMoves, SettingsInv, Alike
  <2>4. CountInv'
    BY <2>1, CountKept DEF CloudMoves
  <2> QED
    BY <2>3, <2>4
<1>3. ASSUME Tick PROVE SettingsInv' /\ CountInv'
  <2>1. /\ DOMAIN stacks' = DOMAIN stacks /\ DOMAIN previous' = DOMAIN previous
        /\ DOMAIN snap' = DOMAIN snap /\ UNCHANGED <<at, pc, listed>>
        /\ \A s \in DOMAIN stacks : SameStack(stacks[s], stacks'[s])
        /\ \A s \in DOMAIN previous : SameStack(previous[s], previous'[s])
        /\ \A s \in DOMAIN snap : SameStack(snap[s], snap'[s])
    BY <1>3, AgedSnapshot DEF Tick, TypeInv, CloudType, CycleType, TypeOK
  <2>2. /\ DOMAIN model' = DOMAIN model
        /\ \A i \in DOMAIN model :
             /\ model'[i].stack = model[i].stack
             /\ model'[i].clusterLocal = model[i].clusterLocal
             /\ model'[i].shared = model[i].shared
             /\ Alike(model[i]) => Alike(model'[i])
    BY <1>3, TickStep DEF Alike
  <2>3. SettingsInv'
    <3>1. /\ \A s \in DOMAIN stacks' : Alike(stacks'[s])
          /\ \A s \in DOMAIN previous' : Alike(previous'[s])
          /\ \A s \in DOMAIN snap' : Alike(snap'[s])
      BY <2>1, AlikeStacks DEF SettingsInv
    <3>2. \A i \in DOMAIN model' :
            ~model'[i].clusterLocal => Alike(model'[i]) /\ model'[i].shared
      BY <2>2 DEF SettingsInv
    <3> QED
      BY <2>1, <3>1, <3>2 DEF SettingsInv, Alike
  <2>4. CountInv'
    BY <2>1, <2>2, CountKept
  <2> QED
    BY <2>3, <2>4
<1>4. ASSUME Ends PROVE SettingsInv' /\ CountInv'
  <2>1. /\ DOMAIN snap' = {} /\ DOMAIN listed' = {} /\ DOMAIN model' = {}
        /\ pc' = "sleep" /\ UNCHANGED <<stacks, previous>>
    BY <1>4, EndingSteps, EmptyCycle DEF ForgetCycle, EmptyMap, cloudVars
  <2>2. SettingsInv'
    BY <2>1 DEF SettingsInv, Alike, Loaded
  <2>3. CountInv'
    BY <2>1 DEF CountInv, Missing, Loaded
  <2> QED
    BY <2>2, <2>3
<1>5. ASSUME BuildModel PROVE SettingsInv' /\ CountInv'
  BY <1>5, UniformBuild
<1>6. ASSUME MatchResource PROVE SettingsInv' /\ CountInv'
  BY <1>6, UniformMatch
<1>7. ASSUME StartApplying PROVE SettingsInv' /\ CountInv'
  <2>1. /\ UNCHANGED <<stacks, previous, snap, listed, model>>
        /\ pc = "match" /\ pc' = "apply"
    BY <1>7 DEF StartApplying, matchVars, cloudVars
  <2>2. SettingsInv'
    BY <2>1 DEF SettingsInv, Alike, Loaded
  <2>3. CountInv'
    BY <2>1 DEF CountInv, Loaded
  <2> QED
    BY <2>2, <2>3
<1>8. ASSUME Applies PROVE SettingsInv' /\ CountInv'
  BY <1>8, UniformApply
<1>9. ASSUME NEW id \in Ident, UpdateIngressLoadBalancer(id) \/ PatchFails(id)
      PROVE  SettingsInv' /\ CountInv'
  <2>1. Dequeue(id) /\ UNCHANGED <<stacks, previous, snap, listed, model>>
    BY <1>9, PublishingSteps DEF cloudVars, matchVars
  <2>2. /\ pc = "publish" /\ pc' \in {"apply", "publish"}
        /\ at' = at \/ at' = at + 1
        /\ at \in Nat /\ DOMAIN model \subseteq Nat
    BY <2>1 DEF Dequeue, TypeInv, CycleType, StageInv, TypeOK, IsSequence
  <2>3. \A i : Missing(i)' => Missing(i)
    BY <2>1, <2>2 DEF Missing
  <2>4. SettingsInv'
    BY <2>1, <2>2 DEF SettingsInv, Alike, Loaded
  <2>5. CountInv'
    BY <2>1, <2>2, <2>3 DEF CountInv, Loaded
  <2> QED
    BY <2>4, <2>5
<1> QED
  BY <1>1, <1>2, <1>3, <1>4, <1>5, <1>6, <1>7, <1>8, <1>9, StepCases, UniformReading
  DEF Quietly

(* As long as the resources agree in their settings and their certificates *)
(* fit, a stack that is being created, updated, rolled back or deleted is  *)
(* found by every cycle and takes all of them: none is created beside it.  *)
THEOREM StacksAggregated == SystemSpec => []Aggregated
<1> DEFINE I == Uniform => SettingsInv /\ CountInv
<1>1. SystemInit => I
  <2> SUFFICES ASSUME SystemInit PROVE SettingsInv /\ CountInv
    OBVIOUS
  <2>1. /\ DOMAIN stacks = {} /\ DOMAIN previous = {} /\ DOMAIN snap = {}
        /\ DOMAIN listed = {} /\ DOMAIN model = {} /\ pc = "sleep"
    BY EmptyCycle DEF SystemInit, Installed, EmptyMap
  <2> QED
    BY <2>1 DEF SettingsInv, CountInv, Missing, Loaded
<1>2. TypeInv /\ I /\ [SystemNext]_vars => I'
  <2> SUFFICES ASSUME TypeInv, SettingsInv, CountInv, Uniform, [SystemNext]_vars
               PROVE  SettingsInv' /\ CountInv'
    BY DEF Uniform
  <2> QED
    BY UniformStep
<1>3. I => Aggregated
  <2> SUFFICES ASSUME Uniform, CountInv PROVE Cardinality(DOMAIN stacks) <= 1
    BY DEF Aggregated
  <2>1. PICK s : DOMAIN stacks \subseteq {s}
    BY DEF CountInv
  <2>2. DOMAIN stacks = {} \/ DOMAIN stacks = {s}
    BY <2>1
  <2>3. Cardinality({}) = 0 /\ Cardinality({s}) = 1
    BY FS_EmptySet, FS_Singleton
  <2>4. Cardinality(DOMAIN stacks) = 0 \/ Cardinality(DOMAIN stacks) = 1
    BY <2>2, <2>3, Zenon
  <2> QED
    BY <2>4
<1> QED
  BY <1>1, <1>2, <1>3, TypesKept, PTL DEF SystemSpec

-----------------------------------------------------------------------------
(* A load balancer is kept as long as resources are published on it        *)

(* CertTTL outlasts the moves of a resource: each of the other stacks may  *)
(* be too young to publish on for MinAge, one after the other.             *)
Patient ==
  /\ Timely
  /\ CertTTL > 0 /\ CertTTL > (Cardinality(StackName) - 1) * MinAge
  /\ FaultKinds \cap {"expiry", "forbidden"} = {}
  /\ MaxFaults <= 1 \/ ~({"create", "delete"} \subseteq FaultKinds)
  /\ MinAge = 0 \/ FaultKinds \cap {"api", "rollback"} = {}

(* Whatever users write, one of the certificates that are known suits it.  *)
Covered(known) ==
  \A certificates \in SUBSET Cert : \A r \in Resources :
    known \subseteq certificates /\ ~ClusterLocal(r)
      => CertificatesFor(r, certificates) # {}

(* Stack x has a certificate in use, or one that is kept for a time of n.  *)
Lasts(x, n) ==
  \E c \in DOMAIN x.certs : x.certs[c] = NoExpiry \/ x.certs[c] >= n

(* The times for which a step of the cloud or the controller keeps Lasts.  *)
Level == IF MinAge = 0 THEN {1} ELSE 1 .. CertTTL

Outlasts(t, s) ==
  t \in DOMAIN stacks /\ \A n \in Level : Lasts(stacks[s], n) => Lasts(stacks[t], n)

(* The time that may pass before a resource on stack s is published on one *)
(* of the other stacks; those that go before s are of no use.              *)
Youth(s) ==
  {y \in (StackName \ {s}) \X (1 .. MinAge) :
     Outlasts(y[1], s) => y[2] <= young[y[1]]}

Kept(s) == s \in DOMAIN stacks => Lasts(stacks[s], Cardinality(Youth(s)) + 1)

LEMMA LevelFacts ==
  ASSUME Patient
  PROVE  /\ Level \subseteq 1 .. CertTTL /\ 1 \in Level
         /\ MinAge = 0 => Level = {1}
         /\ MinAge # 0 => Level = 1 .. CertTTL
         /\ CertTTL \in Nat /\ MinAge \in Nat
BY ConstantsAssumption, ControllerAssumption DEF Patient, Level

LEMMA YouthSize ==
  ASSUME Patient, NEW s \in StackName, NEW Y,
         Y \subseteq (StackName \ {s}) \X (1 .. MinAge)
  PROVE  IsFiniteSet(Y) /\ Cardinality(Y) \in Nat /\ Cardinality(Y) + 1 \in Level
<1> DEFINE others == StackName \ {s}
           ages == 1 .. MinAge
<1>1. IsFiniteSet(others) /\ Cardinality(others) = Cardinality(StackName) - 1
  BY ConstantsAssumption, FS_RemoveElement
<1>2. MinAge \in Nat /\ CertTTL \in Nat
  BY LevelFacts
<1>3. IsFiniteSet(ages) /\ Cardinality(ages) = MinAge
  BY <1>2, FS_Interval
<1> HIDE DEF others, ages
<1>4. /\ IsFiniteSet(others \X ages)
      /\ Cardinality(others \X ages) = Cardinality(others) * Cardinality(ages)
  BY <1>1, <1>3, FS_Product
<1>5. Cardinality(others \X ages) = (Cardinality(StackName) - 1) * MinAge
  BY <1>1, <1>3, <1>4
<1>6. Y \in SUBSET (others \X ages)
  BY DEF others, ages
<1>7. IsFiniteSet(Y) /\ Cardinality(Y) <= Cardinality(others \X ages)
  BY <1>4, <1>6, FS_Subset
<1>8. Cardinality(Y) \in Nat /\ Cardinality(others \X ages) \in Nat
  BY <1>4, <1>7, FS_CardinalityType
<1>9. Cardinality(others \X ages) < CertTTL
  BY <1>2, <1>5, <1>8 DEF Patient
<1>10. CASE MinAge = 0
  <2>1. ages = {}
    BY <1>10 DEF ages
  <2>2. Y = {}
    BY <1>6, <2>1
  <2> QED
    BY <1>7, <1>10, <2>2, FS_EmptySet, LevelFacts
<1>11. CASE MinAge # 0
  BY <1>2, <1>7, <1>8, <1>9, <1>11, LevelFacts
<1> QED
  BY <1>10, <1>11

LEMMA LastsLess ==
  ASSUME NEW x, IsStack(x), NEW m \in Int, NEW n \in Int, n <= m, Lasts(x, m)
  PROVE  Lasts(x, n)
<1>1. \A c \in DOMAIN x.certs : x.certs[c] \in Int
  BY ConstantsAssumption DEF IsStack, Expiry, NoExpiry
<1> QED
  BY <1>1 DEF Lasts

LEMMA LiveStack ==
  ASSUME NEW x, IsStack(x)
  PROVE  ShouldDelete(x) <=> ~Lasts(x, 1)
<1>1. \A c \in DOMAIN x.certs : x.certs[c] \in {NoExpiry} \cup Nat
  BY ConstantsAssumption DEF IsStack, Expiry
<1> QED
  BY <1>1 DEF ShouldDelete, Lasts, NoExpiry

(* A time unit passes for stack x.                                         *)
LEMMA LastsLater ==
  ASSUME NEW x, IsStack(x), NEW y, DOMAIN y.certs = DOMAIN x.certs,
         \A c \in DOMAIN x.certs : y.certs[c] = Later(x.certs[c]),
         NEW n \in Nat, n >= 1
  PROVE  Lasts(y, n) <=> Lasts(x, n + 1)
<1>1. \A c \in DOMAIN x.certs : x.certs[c] \in {NoExpiry} \cup Nat
  BY ConstantsAssumption DEF IsStack, Expiry
<1> QED
  BY <1>1 DEF Lasts, Later, NoExpiry

(* What is kept stays so if it loses none of its time, and the others lose *)
(* none they have in advance of it.                                        *)
LEMMA KeptWhen ==
  ASSUME Patient, CloudType, CloudType', NEW s, Kept(s),
         s \in DOMAIN stacks' => s \in DOMAIN stacks,
         \A n \in Level : s \in DOMAIN stacks' /\ Lasts(stacks[s], n)
           => Lasts(stacks'[s], n),
         \A t \in StackName \ {s} :
           s \in DOMAIN stacks' /\ Outlasts(t, s) /\ young[t] < MinAge
             => Outlasts(t, s)' /\ young'[t] <= young[t]
  PROVE  Kept(s)'
<1> SUFFICES ASSUME s \in DOMAIN stacks'
             PROVE  Lasts(stacks'[s], Cardinality(Youth(s)') + 1)
  BY DEF Kept
<1>1. s \in StackName /\ s \in DOMAIN stacks /\ IsStack(stacks'[s])
  BY DEF CloudType, IsSnapshot
<1>2. Youth(s)' \subseteq Youth(s)
  <2> SUFFICES ASSUME NEW t \in StackName \ {s}, NEW k \in 1 .. MinAge,
                      Outlasts(t, s)' => k <= young'[t],
                      Outlasts(t, s), ~(k <= young[t])
               PROVE  FALSE
    BY DEF Youth
  <2>1. young[t] \in Nat /\ young'[t] \in Nat /\ MinAge \in Nat
    BY ControllerAssumption DEF CloudType
  <2>2. young[t] < MinAge
    BY <2>1
  <2> QED
    BY <2>1, <2>2
<1>3. /\ Youth(s) \subseteq (StackName \ {s}) \X (1 .. MinAge)
      /\ Youth(s)' \subseteq (StackName \ {s}) \X (1 .. MinAge)
  BY DEF Youth
<1>4. /\ IsFiniteSet(Youth(s)) /\ Cardinality(Youth(s)) + 1 \in Level
      /\ Cardinality(Youth(s)) \in Nat
  BY <1>1, <1>3, YouthSize
<1>5. Cardinality(Youth(s)') <= Cardinality(Youth(s)) /\ Cardinality(Youth(s)') \in Nat
  BY <1>1, <1>2, <1>3, <1>4, FS_Subset, YouthSize
<1>6. Lasts(stacks'[s], Cardinality(Youth(s)) + 1)
  BY <1>1, <1>4 DEF Kept
<1> QED
  BY <1>1, <1>4, <1>5, <1>6, LastsLess

LEMMA KeptAlive ==
  ASSUME Patient, CloudType, NEW s \in DOMAIN stacks, Kept(s)
  PROVE  Lasts(stacks[s], 1)
<1>1. s \in StackName /\ IsStack(stacks[s])
  BY DEF CloudType, IsSnapshot
<1>2. Youth(s) \subseteq (StackName \ {s}) \X (1 .. MinAge)
  BY DEF Youth
<1>3. Cardinality(Youth(s)) \in Nat
  BY <1>1, <1>2, YouthSize
<1> QED
  BY <1>1, <1>3, LastsLess DEF Kept

(* Stack x has a certificate in use.                                       *)
ForGood(x) == \E c \in DOMAIN x.certs : x.certs[c] = NoExpiry

(* UpdateStack takes from stack x no time it needs.                        *)
LEMMA WrittenLasts ==
  ASSUME NEW x, IsStack(x), NEW lb, DOMAIN lb.existing = DOMAIN x.certs,
         \A c \in DOMAIN lb.existing : lb.existing[c] = x.certs[c],
         NEW y, y.certs = CertificateARNs(lb), NEW n \in 1 .. CertTTL
  PROVE  /\ Lasts(x, n) => Lasts(y, n)
         /\ Needed(lb) = {} /\ Lasts(y, n) => Lasts(x, n)
         /\ Needed(lb) # {} => ForGood(y)
<1> DEFINE kept == {c \in DOMAIN lb.existing \ Needed(lb) : lb.existing[c] # 0}
<1>1. \A c \in DOMAIN x.certs : x.certs[c] \in {NoExpiry} \cup Nat
  BY ConstantsAssumption DEF IsStack, Expiry
<1>2. /\ DOMAIN y.certs = Needed(lb) \cup kept
      /\ \A c \in Needed(lb) : y.certs[c] = NoExpiry
      /\ \A c \in kept \ Needed(lb) :
           y.certs[c] = IF x.certs[c] = NoExpiry THEN CertTTL ELSE x.certs[c]
  BY DEF CertificateARNs
<1>3. n \in Nat /\ n >= 1 /\ n <= CertTTL /\ CertTTL \in Nat
  BY ConstantsAssumption
<1>4. ASSUME NEW c \in DOMAIN x.certs, x.certs[c] = NoExpiry \/ x.certs[c] >= n
      PROVE  /\ c \in DOMAIN y.certs
             /\ y.certs[c] = NoExpiry \/ y.certs[c] >= n
  <2>1. x.certs[c] # 0
    BY <1>1, <1>3, <1>4 DEF NoExpiry
  <2>2. c \in Needed(lb) \cup kept
    BY <2>1
  <2> QED
    BY <1>2, <1>3, <1>4, <2>2
<1> HIDE DEF kept
<1>5. Lasts(x, n) => Lasts(y, n)
  BY <1>4 DEF Lasts
<1>6. ASSUME Needed(lb) = {}, Lasts(y, n) PROVE Lasts(x, n)
  <2>1. PICK c \in DOMAIN y.certs : y.certs[c] = NoExpiry \/ y.certs[c] >= n
    BY <1>6 DEF Lasts
  <2>2. c \in kept /\ c \in DOMAIN x.certs
    BY <1>2, <1>6, <2>1 DEF kept
  <2>3. x.certs[c] = NoExpiry \/ x.certs[c] >= n
    BY <1>2, <1>6, <2>1, <2>2
  <2> QED
    BY <2>2, <2>3 DEF Lasts
<1>7. Needed(lb) # {} => ForGood(y)
  BY <1>2 DEF ForGood
<1> QED
  BY <1>5, <1>6, <1>7

(* What the certificates of stack s and the age of its load balancer say   *)
(* of its status.                                                          *)
StageLife(s) ==
  /\ stacks[s].status = "updating" => Lasts(stacks[s], 1)
  /\ stacks[s].status \in {"complete", "updating"} => elb[s] # "none"
  /\ stacks[s].status = "creating" => young[s] = MinAge
  /\ stacks[s].status = "deleting" /\ Lasts(stacks[s], 1) =>
       young[s] = MinAge /\ "create" \in FaultKinds /\ faults < MaxFaults
  /\ stacks[s].status = "delete_failed" => ~Lasts(stacks[s], 1)

(* Stack s lasts as long as the cycle thinks it does.                      *)
AsRead(s) == \A n \in Level : Lasts(snap[s], n) <=> Lasts(stacks[s], n)

LifeInv ==
  /\ \A s \in DOMAIN stacks : StageLife(s)
  /\ \A s \in DOMAIN previous : Lasts(previous[s], 1)
  /\ \A s \in DOMAIN stacks : Pending(s) => AsRead(s)

(* No stack has lost or won time.                                          *)
SameTimes ==
  \A s \in DOMAIN stacks' : s \in DOMAIN stacks /\
    \A n \in Level : Lasts(stacks'[s], n) <=> Lasts(stacks[s], n)

LEMMA LifeMoves ==
  ASSUME LifeInv, UNCHANGED <<snap, model, at, pc>>, SameTimes,
         \A s \in DOMAIN stacks' : StageLife(s)',
         DOMAIN previous' \subseteq DOMAIN previous,
         \A s \in DOMAIN previous' : previous'[s] = previous[s]
  PROVE  LifeInv'
BY PendingKept DEF LifeInv, SameTimes, AsRead, Lasts

LEMMA LifeOfOthers ==
  ASSUME LifeInv, BudgetType, BudgetType', faults' <= faults,
         NEW s \in DOMAIN stacks, UNCHANGED <<stacks[s], elb[s], young[s]>>
  PROVE  StageLife(s)'
<1>1. stacks'[s] = stacks[s] /\ elb'[s] = elb[s] /\ young'[s] = young[s]
  OBVIOUS
<1>2. faults < MaxFaults => faults' < MaxFaults
  BY ControllerAssumption DEF BudgetType
<1> QED
  BY <1>1, <1>2 DEF LifeInv, StageLife, Lasts

(* What CloudFormation does takes no time from a stack, for rollbacks are  *)
(* ruled out unless any load balancer is old enough at once; and only      *)
(* stacks go that are of no use.                                           *)
LEMMA CloudLife ==
  ASSUME Patient, TypeInv, LifeInv, NEW x \in StackName,
         CloudProgress(x) \/ CloudFailure(x)
  PROVE  /\ LifeInv' /\ SameTimes /\ UNCHANGED young
         /\ \A t \in DOMAIN stacks \ DOMAIN stacks' : stacks[t].status = "deleting"
<1>1. /\ CloudType' /\ BudgetType' /\ CloudMoves
      /\ UNCHANGED <<snap, model, at, pc>>
  BY CloudSteps DEF TypeInv, cycleVars, matchVars
<1>2. /\ DOMAIN previous' \subseteq DOMAIN previous
      /\ \A s \in DOMAIN previous' : previous'[s] = previous[s]
  BY <1>1 DEF CloudMoves
<1>3. faults \in Nat /\ MaxFaults \in Nat /\ CloudType /\ BudgetType
      /\ {"creating", "complete", "updating", "deleting", "delete_failed"} \subseteq Status
  BY ControllerAssumption DEF TypeInv, BudgetType, Status
<1>4. ASSUME NEW from \in Status, NEW to \in Status, Progress(x, from, to),
             from # "complete", to # "updating", faults' <= faults,
             \A s \in StackName \ {x} : elb'[s] = elb[s], StageLife(x)'
      PROVE  /\ LifeInv' /\ SameTimes /\ UNCHANGED young
             /\ DOMAIN stacks' = DOMAIN stacks
  <2>1. /\ DOMAIN stacks' = DOMAIN stacks /\ young' = young
        /\ stacks'[x].certs = stacks[x].certs
        /\ \A t \in DOMAIN stacks \ {x} : stacks'[t] = stacks[t]
        /\ DOMAIN stacks \subseteq StackName
    BY <1>3, <1>4, ProgressFacts DEF Progress, CloudType, IsSnapshot
  <2>2. SameTimes
    BY <2>1 DEF SameTimes, Lasts
  <2>3. ASSUME NEW s \in DOMAIN stacks', s # x PROVE StageLife(s)'
    BY <1>1, <1>3, <1>4, <2>1, <2>3, LifeOfOthers
  <2> QED
    BY <1>1, <1>2, <1>4, <2>1, <2>2, <2>3, LifeMoves
<1>5. CASE CreateCompletes(x)
  <2>1. /\ Progress(x, "creating", "complete") /\ faults' = faults
        /\ elb' = [elb EXCEPT ![x] = "provisioning"]
    BY <1>5 DEF CreateCompletes, budget
  <2>2. stacks'[x].status = "complete"
    BY <1>3, <2>1, ProgressFacts
  <2>3. elb'[x] = "provisioning" /\ \A s \in StackName \ {x} : elb'[s] = elb[s]
    BY <1>3, <2>1 DEF CloudType
  <2>4. StageLife(x)'
    BY <2>2, <2>3 DEF StageLife
  <2> QED
    BY <1>3, <1>4, <2>1, <2>3, <2>4
<1>6. CASE CreateFails(x)
  <2>1. /\ Progress(x, "creating", "deleting") /\ Fault("create") /\ elb' = elb
    BY <1>6 DEF CreateFails
  <2>2. /\ x \in DOMAIN stacks /\ stacks[x].status = "creating"
        /\ stacks'[x].status = "deleting"
    BY <1>3, <2>1, ProgressFacts
  <2>3. "create" \in FaultKinds /\ faults' <= faults /\ faults' < MaxFaults
    BY <1>3, <2>1 DEF Fault, BudgetType
  <2>4. young'[x] = young[x]
    BY <2>1 DEF Progress
  <2>5. StageLife(x)'
    BY <2>2, <2>3, <2>4 DEF LifeInv, StageLife
  <2> QED
    BY <1>3, <1>4, <2>1, <2>3, <2>5
<1>7. CASE UpdateCompletes(x)
  <2>1. Progress(x, "updating", "complete") /\ elb' = elb /\ faults' = faults
    BY <1>7 DEF UpdateCompletes, budget
  <2>2. /\ x \in DOMAIN stacks /\ stacks[x].status = "updating"
        /\ stacks'[x].status = "complete"
    BY <1>3, <2>1, ProgressFacts
  <2>3. StageLife(x)'
    BY <2>1, <2>2 DEF LifeInv, StageLife
  <2> QED
    BY <1>3, <1>4, <2>1, <2>3
<1>8. CASE DeleteFails(x)
  <2>1. Progress(x, "deleting", "delete_failed") /\ Fault("delete") /\ elb' = elb
    BY <1>8 DEF DeleteFails
  <2>2. /\ x \in DOMAIN stacks /\ stacks[x].status = "deleting"
        /\ stacks'[x].status = "delete_failed" /\ stacks'[x].certs = stacks[x].certs
    BY <1>3, <2>1, ProgressFacts
  <2>3. "delete" \in FaultKinds /\ faults > 0 /\ faults' <= faults
    BY <1>3, <2>1 DEF Fault
  <2>4. ~Lasts(stacks[x], 1)
    BY <1>3, <2>2, <2>3 DEF LifeInv, StageLife, Patient
  <2>5. StageLife(x)'
    BY <2>2, <2>4 DEF StageLife, Lasts
  <2> QED
    BY <1>3, <1>4, <2>1, <2>3, <2>5
<1>9. CASE UpdateRollsBack(x)
  <2>1. /\ x \in DOMAIN previous /\ stacks' = [stacks EXCEPT ![x] = previous[x]]
        /\ Fault("rollback") /\ UNCHANGED <<elb, young>>
    BY <1>9 DEF UpdateRollsBack
  <2>2. /\ x \in DOMAIN stacks /\ stacks[x].status = "updating"
        /\ stacks'[x] = previous[x] /\ DOMAIN stacks' = DOMAIN stacks
        /\ \A t \in DOMAIN stacks \ {x} : stacks'[t] = stacks[t]
        /\ IsComplete(previous[x])
    BY <2>1 DEF TypeInv, CloudType
  <2>3. Level = {1} /\ faults' <= faults
    BY <1>3, <2>1, LevelFacts DEF Patient, Fault
  <2>4. Lasts(stacks[x], 1) /\ Lasts(stacks'[x], 1) /\ elb[x] # "none"
    BY <2>1, <2>2 DEF LifeInv, StageLife
  <2>5. SameTimes
    BY <2>2, <2>3, <2>4 DEF SameTimes, Lasts
  <2>6. StageLife(x)'
    BY <2>1, <2>2, <2>4 DEF StageLife, IsComplete
  <2>7. ASSUME NEW s \in DOMAIN stacks', s # x PROVE StageLife(s)'
    BY <1>1, <1>3, <2>1, <2>2, <2>3, <2>7, LifeOfOthers
  <2> QED
    BY <1>1, <1>2, <2>1, <2>2, <2>5, <2>6, <2>7, LifeMoves
<1>10. CASE DeleteCompletes(x)
  <2>1. /\ x \in DOMAIN stacks /\ stacks[x].status = "deleting"
        /\ DOMAIN stacks' = DOMAIN stacks \ {x}
        /\ \A t \in DOMAIN stacks' : stacks'[t] = stacks[t]
        /\ elb' = [elb EXCEPT ![x] = "none"] /\ young' = young /\ faults' = faults
    BY <1>10 DEF DeleteCompletes, budget
  <2>2. SameTimes
    BY <2>1 DEF SameTimes, Lasts
  <2>3. ASSUME NEW s \in DOMAIN stacks' PROVE StageLife(s)'
    <3>1. s # x /\ s \in StackName /\ elb'[s] = elb[s]
      BY <1>3, <2>1, <2>3 DEF CloudType, IsSnapshot
    <3> QED
      BY <1>1, <1>3, <2>1, <3>1, LifeOfOthers
  <2> QED
    BY <1>1, <1>2, <2>1, <2>2, <2>3, LifeMoves
<1>11. CASE LoadBalancerActive(x)
  <2>1. /\ elb[x] = "provisioning" /\ elb' = [elb EXCEPT ![x] = "active"]
        /\ UNCHANGED <<stacks, young>> /\ faults' = faults
    BY <1>11 DEF LoadBalancerActive, budget
  <2>2. SameTimes
    BY <2>1 DEF SameTimes, Lasts
  <2>3. ASSUME NEW s \in DOMAIN stacks' PROVE StageLife(s)'
    <3>1. s \in StackName /\ (elb[s] # "none" => elb'[s] # "none")
      BY <1>3, <2>1, <2>3 DEF CloudType, IsSnapshot
    <3>2. StageLife(s)
      BY <2>1, <2>3 DEF LifeInv
    <3> QED
      BY <2>1, <3>1, <3>2 DEF StageLife, Lasts
  <2> QED
    BY <1>1, <1>2, <2>1, <2>2, <2>3, LifeMoves
<1> QED
  BY <1>4, <1>5, <1>6, <1>7, <1>8, <1>9, <1>10, <1>11 DEF CloudProgress, CloudFailure

LEMMA KeptWhileCloudMoves ==
  ASSUME Patient, TypeInv, LifeInv, NEW x \in StackName,
         CloudProgress(x) \/ CloudFailure(x), NEW s, Kept(s)
  PROVE  Kept(s)'
<1>1. /\ SameTimes /\ UNCHANGED young
      /\ \A t \in DOMAIN stacks \ DOMAIN stacks' : stacks[t].status = "deleting"
  BY CloudLife
<1>2. CloudType /\ CloudType'
  BY CloudSteps DEF TypeInv
<1>3. ASSUME NEW t \in StackName \ {s}, s \in DOMAIN stacks',
             Outlasts(t, s), young[t] < MinAge
      PROVE  Outlasts(t, s)' /\ young'[t] <= young[t]
  <2>1. Lasts(stacks[s], 1) /\ 1 \in Level
    BY <1>1, <1>2, <1>3, KeptAlive, LevelFacts DEF SameTimes
  <2>2. t \in DOMAIN stacks /\ Lasts(stacks[t], 1)
    BY <1>3, <2>1 DEF Outlasts
  <2>3. young[t] \in Nat /\ MinAge \in Nat /\ young'[t] = young[t]
    BY <1>1, <1>2, ControllerAssumption DEF CloudType
  <2>4. t \in DOMAIN stacks'
    BY <1>1, <1>3, <2>2, <2>3 DEF LifeInv, StageLife
  <2>5. \A n \in Level : Lasts(stacks'[s], n) => Lasts(stacks'[t], n)
    BY <1>1, <1>3, <2>4 DEF SameTimes, Outlasts
  <2> QED
    BY <2>3, <2>4, <2>5 DEF Outlasts, Lasts, Level
<1> QED
  BY <1>1, <1>2, <1>3, KeptWhen DEF SameTimes

-----------------------------------------------------------------------------
(* The controller works on the stacks                                      *)

(* Certificates come and stay.                                             *)
CertificatesInv(known) ==
  /\ known \subseteq certs /\ available \subseteq certs
  /\ \A s \in DOMAIN stacks : DOMAIN stacks[s].certs \subseteq certs
  /\ \A s \in DOMAIN previous : DOMAIN previous[s].certs \subseteq certs
  /\ \A s \in DOMAIN snap : DOMAIN snap[s].certs \subseteq certs
  /\ pc \in {"alarms"} \cup Working =>
       \A s \in DOMAIN snap : DOMAIN snap[s].certs \subseteq available
  /\ \A i \in DOMAIN model :
       ~model[i].clusterLocal => DOMAIN model[i].ingresses \subseteq available

(* A load balancer knows all certificates of its stack.                    *)
LEMMA CurrentSnap ==
  ASSUME TypeInv, NEW known, CertificatesInv(known),
         pc = "apply", at <= Len(model), Current.stack # None
  PROVE  /\ Pending(Current.stack) /\ Current.stack \in DOMAIN snap
         /\ Current.stack \in StackName /\ IsStack(snap[Current.stack])
         /\ DOMAIN Current.existing = DOMAIN snap[Current.stack].certs
         /\ \A c \in DOMAIN Current.existing :
              Current.existing[c] = snap[Current.stack].certs[c]
<1>1. FromSnap(Current) /\ IsSnapshot(snap)
  BY CurrentFacts DEF TypeInv, CycleType, TypeOK
<1>2. Current.stack \in DOMAIN snap /\ Pending(Current.stack)
  BY <1>1, CurrentPending DEF FromSnap
<1>3. DOMAIN snap[Current.stack].certs \subseteq available
  BY <1>2 DEF CertificatesInv, Working
<1> QED
  BY <1>1, <1>2, <1>3 DEF FromSnap, IsSnapshot

LEMMA StatusLife ==
  ASSUME TypeInv, NEW status, StatusIs(status),
         ~Current.clusterLocal, Current.stack # None
  PROVE  /\ status = "delete" <=> ~Lasts(snap[Current.stack], 1)
         /\ status = "ready" /\ IsComplete(snap[Current.stack])
              => CertificateARNs(Current) = snap[Current.stack].certs
<1>1. pc = "apply" /\ at <= Len(model)
  BY DEF StatusIs
<1>2. IsStack(snap[Current.stack])
  BY <1>1, CurrentFacts DEF FromSnap, TypeInv, CycleType, TypeOK, IsSnapshot
<1>3. ShouldDelete(snap[Current.stack]) <=> ~Lasts(snap[Current.stack], 1)
  BY <1>2, LiveStack
<1> QED
  BY <1>3 DEF StatusIs, LBStatus, InSync

LEMMA UpdatedTimes ==
  ASSUME Patient, TypeInv, NEW known, CertificatesInv(known), LifeInv,
         UpdateStack, NEW owner, Updates(owner), NEW s, s = Current.stack
  PROVE  /\ s \in DOMAIN stacks /\ Lasts(stacks[s], 1) /\ Lasts(stacks'[s], 1)
         /\ \A n \in Level : Lasts(stacks[s], n) => Lasts(stacks'[s], n)
         /\ Needed(Current) = {} =>
              \A n \in Level : Lasts(stacks'[s], n) => Lasts(stacks[s], n)
         /\ Needed(Current) # {} => ForGood(stacks'[s])
<1>1. /\ StatusIs("update") /\ pc = "apply" /\ at <= Len(model)
      /\ ~Current.clusterLocal /\ Current.stack # None
  BY StatusFacts DEF UpdateStack
<1>2. /\ Pending(s) /\ IsStack(snap[s])
      /\ DOMAIN Current.existing = DOMAIN snap[s].certs
      /\ \A c \in DOMAIN Current.existing : Current.existing[c] = snap[s].certs[c]
  BY <1>1, CurrentSnap
<1>3. /\ s \in DOMAIN stacks /\ stacks'[s] = UpdatedStack(owner)
  BY DEF Updates
<1>4. stacks'[s].certs = CertificateARNs(Current)
  BY <1>3 DEF UpdatedStack
<1>5. Level \subseteq 1 .. CertTTL /\ 1 \in Level
  BY LevelFacts
<1>6. AsRead(s) /\ Lasts(snap[s], 1)
  BY <1>1, <1>2, <1>3, StatusLife DEF LifeInv
<1>7. \A n \in Level : /\ Lasts(snap[s], n) => Lasts(stacks'[s], n)
                       /\ Needed(Current) = {} /\ Lasts(stacks'[s], n) => Lasts(snap[s], n)
                       /\ Needed(Current) # {} => ForGood(stacks'[s])
  BY <1>2, <1>4, <1>5, WrittenLasts
<1> QED
  BY <1>3, <1>5, <1>6, <1>7 DEF AsRead

LEMMA LifeAfterApply ==
  ASSUME Patient, TypeInv, NEW known, CertificatesInv(known), LifeInv, Applies
  PROVE  LifeInv'
<1>1. /\ pc = "apply" /\ at <= Len(model) /\ (NextLB \/ Publish)
      /\ UNCHANGED <<snap, model>> /\ BudgetType' /\ CloudType'
  BY ApplyingSteps DEF matchVars
<1>2. /\ CloudType /\ BudgetType /\ faults' <= faults
      /\ DOMAIN stacks \subseteq StackName /\ DOMAIN stacks' \subseteq StackName
  <2>1. faults' = faults \/ faults' = faults - 1
    BY DEF Applies, CreateStack, UpdateStack, DeleteStack, Ready, StackCallFails,
           QuotaExhausted, Fault, budget
  <2> QED
    BY <1>1, <2>1, ControllerAssumption DEF TypeInv, BudgetType, CloudType, IsSnapshot
<1>3. ASSUME NEW s \in DOMAIN stacks', Pending(s)' PROVE AsRead(s)'
  <2>1. Pending(s) /\ s # Current.stack /\ s \in DOMAIN snap
    BY <1>1, <1>3, PendingAfterApply DEF Pending
  <2>2. s \in DOMAIN stacks /\ stacks'[s] = stacks[s]
    BY <2>1, OthersKept
  <2> QED
    BY <1>1, <2>1, <2>2 DEF LifeInv, AsRead, Lasts
<1>4. SUFFICES /\ \A s \in DOMAIN stacks' : StageLife(s)'
               /\ \A s \in DOMAIN previous' : Lasts(previous'[s], 1)
  BY <1>3 DEF LifeInv, Lasts
<1>5. CASE CreateStack
  <2>1. PICK n \in StackName : \E owner : Creates(n, owner)
    BY <1>5, CreateStep
  <2>2. PICK owner : Creates(n, owner)
    BY <2>1
  <2>3. StageLife(n)'
    BY <2>2 DEF Creates, CreatedStack, StageLife
  <2>4. ASSUME NEW s \in DOMAIN stacks', s # n PROVE StageLife(s)'
    BY <1>1, <1>2, <2>2, <2>4, LifeOfOthers DEF Creates
  <2> QED
    BY <2>2, <2>3, <2>4 DEF Creates, LifeInv
<1>6. CASE UpdateStack
  <2>1. CASE UNCHANGED <<stacks, previous, elb, young>>
    BY <1>1, <1>2, <2>1, LifeOfOthers DEF LifeInv
  <2>2. ASSUME NEW owner, Updates(owner)
        PROVE  /\ \A s \in DOMAIN stacks' : StageLife(s)'
               /\ \A s \in DOMAIN previous' : Lasts(previous'[s], 1)
    <3> DEFINE u == Current.stack
    <3>1. u \in DOMAIN stacks /\ Lasts(stacks[u], 1) /\ Lasts(stacks'[u], 1)
      BY <1>6, <2>2, UpdatedTimes
    <3>2. /\ stacks'[u] = UpdatedStack(owner) /\ IsComplete(stacks[u])
          /\ UNCHANGED <<elb, young>> /\ DOMAIN stacks' = DOMAIN stacks
          /\ \A t \in DOMAIN stacks \ {u} : stacks'[t] = stacks[t]
          /\ DOMAIN previous' = DOMAIN previous \cup {u}
          /\ \A t \in DOMAIN previous \ {u} : previous'[t] = previous[t]
          /\ previous'[u] = stacks[u]
      BY <2>2 DEF Updates
    <3>3. stacks'[u].status = "updating"
      BY <3>2 DEF UpdatedStack
    <3> HIDE DEF u
    <3>4. ASSUME NEW s, s = u PROVE StageLife(s)'
      BY <3>1, <3>2, <3>3, <3>4 DEF LifeInv, StageLife, IsComplete
    <3>5. ASSUME NEW s \in DOMAIN stacks', s # u PROVE StageLife(s)'
      BY <1>1, <1>2, <3>2, <3>5, LifeOfOthers
    <3>6. \A s \in DOMAIN previous' : Lasts(previous'[s], 1)
      BY <3>1, <3>2 DEF LifeInv
    <3> QED
      BY <3>4, <3>5, <3>6
  <2> QED
    BY <1>6, <2>1, <2>2, UpdateStep
<1>7. CASE DeleteStack
  <2> DEFINE u == Current.stack
  <2>1. /\ StatusIs("delete") /\ ~Current.clusterLocal /\ u # None
    BY <1>7, StatusFacts DEF DeleteStack
  <2>2. /\ DOMAIN stacks' = DOMAIN stacks /\ UNCHANGED <<elb, young>>
        /\ \A t \in DOMAIN stacks \ {u} : stacks'[t] = stacks[t]
        /\ u \in DOMAIN stacks => stacks'[u] = [stacks[u] EXCEPT !.status = "deleting"]
        /\ DOMAIN previous' = DOMAIN previous \ {u}
        /\ \A t \in DOMAIN previous' : previous'[t] = previous[t]
    BY <1>7, DeleteStep DEF Deletes, Dropped
  <2>3. Pending(u) /\ ~Lasts(snap[u], 1) /\ 1 \in Level
    BY <1>1, <2>1, CurrentPending, StatusLife, LevelFacts
  <2> HIDE DEF u
  <2>4. ASSUME NEW s \in DOMAIN stacks', s = u PROVE StageLife(s)'
    <3>1. stacks'[u].status = "deleting" /\ stacks'[u].certs = stacks[u].certs
      BY <1>2, <2>2, <2>4, ChangedStatus DEF CloudType, IsSnapshot, Status
    <3>2. ~Lasts(stacks'[u], 1)
      BY <2>2, <2>3, <2>4, <3>1 DEF LifeInv, AsRead, Lasts
    <3> QED
      BY <2>4, <3>1, <3>2 DEF StageLife
  <2>5. ASSUME NEW s \in DOMAIN stacks', s # u PROVE StageLife(s)'
    BY <1>1, <1>2, <2>2, <2>5, LifeOfOthers
  <2> QED
    BY <2>2, <2>4, <2>5 DEF LifeInv
<1>8. CASE Ready \/ StackCallFails \/ QuotaExhausted
  <2>1. UNCHANGED <<stacks, previous, elb, young>>
    BY <1>8 DEF Ready, StackCallFails, QuotaExhausted, cloudVars
  <2> QED
    BY <1>1, <1>2, <2>1, LifeOfOthers DEF LifeInv
<1> QED
  BY <1>5, <1>6, <1>7, <1>8 DEF Applies

(* Working on a stack leaves enough time to those who rely on it, and on   *)
(* the others.                                                             *)
LEMMA KeptAfterApply ==
  ASSUME Patient, TypeInv, NEW known, CertificatesInv(known), LifeInv, Applies,
         NEW s, s \notin Unused, Kept(s)
  PROVE  Kept(s)'
<1>1. CloudType /\ CloudType' /\ DOMAIN stacks \subseteq StackName
  BY ApplyingSteps DEF TypeInv, CloudType, IsSnapshot
<1>2. ASSUME s \in DOMAIN stacks' => s \in DOMAIN stacks,
             \A t \in DOMAIN stacks :
               t \in DOMAIN stacks' /\ stacks'[t].certs = stacks[t].certs,
             \A t \in DOMAIN stacks : young'[t] = young[t]
      PROVE  Kept(s)'
  <2>1. ASSUME NEW t \in StackName \ {s}, s \in DOMAIN stacks', Outlasts(t, s)
        PROVE  Outlasts(t, s)' /\ young'[t] <= young[t]
    <3>1. young[t] \in Nat
      BY <1>1, ControllerAssumption DEF CloudType
    <3> QED
      BY <1>2, <2>1, <3>1 DEF Outlasts, Lasts, Level
  <2>2. ASSUME NEW n \in Level, s \in DOMAIN stacks', Lasts(stacks[s], n)
        PROVE  Lasts(stacks'[s], n)
    BY <1>2, <2>2 DEF Lasts
  <2> QED
    BY <1>1, <1>2, <2>1, <2>2, KeptWhen
<1>3. CASE CreateStack
  <2>1. PICK n \in StackName : \E owner : Creates(n, owner)
    BY <1>3, CreateStep
  <2> QED
    BY <1>1, <1>2, <2>1 DEF Creates, Unused
<1>4. CASE UpdateStack
  <2>1. CASE UNCHANGED <<stacks, previous, elb, young>>
    BY <1>2, <2>1
  <2>2. ASSUME NEW owner, Updates(owner) PROVE Kept(s)'
    <3>1. PICK u : u = Current.stack
      OBVIOUS
    <3>2. /\ u \in DOMAIN stacks
          /\ \A n \in Level : Lasts(stacks[u], n) => Lasts(stacks'[u], n)
          /\ Needed(Current) = {} =>
               \A n \in Level : Lasts(stacks'[u], n) => Lasts(stacks[u], n)
          /\ Needed(Current) # {} => ForGood(stacks'[u])
      BY <1>4, <2>2, <3>1, UpdatedTimes
    <3>3. /\ DOMAIN stacks' = DOMAIN stacks /\ young' = young
          /\ \A t \in DOMAIN stacks \ {u} : stacks'[t] = stacks[t]
      BY <2>2, <3>1 DEF Updates
    <3>4. CASE s = u /\ Needed(Current) # {}
      BY <3>2, <3>4 DEF Kept, ForGood, Lasts
    <3>5. CASE s # u \/ Needed(Current) = {}
      <4>1. ASSUME NEW t \in StackName \ {s}, s \in DOMAIN stacks', Outlasts(t, s)
            PROVE  Outlasts(t, s)' /\ young'[t] <= young[t]
        <5>1. young[t] \in Nat
          BY <1>1, ControllerAssumption DEF CloudType
        <5>2. \A n \in Level : Lasts(stacks'[s], n) => Lasts(stacks[s], n)
          BY <3>2, <3>3, <3>5, <4>1
        <5>3. \A n \in Level : Lasts(stacks[t], n) => Lasts(stacks'[t], n)
          BY <3>2, <3>3, <4>1 DEF Outlasts
        <5>4. /\ t \in DOMAIN stacks'
              /\ \A n \in Level : Lasts(stacks'[s], n) => Lasts(stacks'[t], n)
          BY <3>3, <4>1, <5>2, <5>3 DEF Outlasts
        <5> QED
          BY <3>3, <5>1, <5>4 DEF Outlasts, Lasts, Level
      <4>2. \A n \in Level : s \in DOMAIN stacks' /\ Lasts(stacks[s], n)
              => Lasts(stacks'[s], n)
        BY <3>2, <3>3
      <4> QED
        BY <1>1, <3>3, <4>1, <4>2, KeptWhen
    <3> QED
      BY <3>4, <3>5
  <2> QED
    BY <1>4, <2>1, <2>2, UpdateStep
<1>5. CASE DeleteStack
  <2>1. /\ DOMAIN stacks' = DOMAIN stacks /\ young' = young
        /\ \A t \in DOMAIN stacks \ {Current.stack} : stacks'[t] = stacks[t]
        /\ Current.stack \in DOMAIN stacks => stacks'[Current.stack] =
             [stacks[Current.stack] EXCEPT !.status = "deleting"]
    BY <1>5, DeleteStep DEF Deletes
  <2>2. \A t \in DOMAIN stacks : IsStack(stacks[t])
    BY <1>1 DEF CloudType, IsSnapshot
  <2>3. \A t \in DOMAIN stacks : stacks'[t].certs = stacks[t].certs
    BY <2>1, <2>2, ChangedStatus DEF Status
  <2> QED
    BY <1>2, <2>1, <2>3
<1>6. CASE Ready \/ StackCallFails \/ QuotaExhausted
  <2>1. UNCHANGED <<stacks, young>>
    BY <1>6 DEF Ready, StackCallFails, QuotaExhausted, cloudVars
  <2> QED
    BY <1>2, <2>1
<1> QED
  BY <1>3, <1>4, <1>5, <1>6 DEF Applies

(* If any load balancer is old enough at once, it is enough to be alive.   *)
LEMMA KeptWithoutAge ==
  ASSUME Patient, MinAge = 0, NEW s \in StackName
  PROVE  Kept(s) <=> (s \in DOMAIN stacks => Lasts(stacks[s], 1))
<1>1. Youth(s) \subseteq (StackName \ {s}) \X (1 .. MinAge)
  BY DEF Youth
<1>2. Cardinality(Youth(s)) + 1 = 1
  BY <1>1, YouthSize, LevelFacts
<1> QED
  BY <1>2 DEF Kept

(* Who is about to be published is on a stack that is kept.                *)
LEMMA PublishedKept ==
  ASSUME Patient, TypeInv, SnapInv, NEW known, CertificatesInv(known), LifeInv,
         Applies, pc' = "publish", NEW s, s = Current.stack
  PROVE  Kept(s)'
<1>1. /\ pc = "apply" /\ at <= Len(model) /\ Publish /\ ToPublish # {} /\ CloudType'
  BY ApplyingSteps DEF NextLB, Publish
<1>2. CASE Current.clusterLocal
  <2>1. s = None
    BY <1>1, <1>2, CurrentFacts DEF LBInv, SharingKept
  <2> QED
    BY <1>1, <2>1, ConstantsAssumption DEF Kept, CloudType, IsSnapshot
<1>3. CASE ~Current.clusterLocal
  <2>1. s # None /\ IsComplete(snap[s]) /\ Members(Current) # {}
    BY <1>1, <1>3 DEF ToPublish
  <2>2. Pending(s) /\ s \in DOMAIN snap /\ s \in StackName
    BY <1>1, <2>1, CurrentSnap
  <2>3. s \in DOMAIN stacks /\ stacks[s] = snap[s]
    BY <2>1, <2>2 DEF SnapInv
  <2>4. Needed(Current) # {}
    BY <2>1 DEF Members, Needed
  <2>5. ASSUME ForGood(stacks'[s]) PROVE Kept(s)'
    BY <2>5 DEF Kept, ForGood, Lasts
  <2>6. ASSUME stacks' = stacks, stacks[s].certs = CertificateARNs(Current)
        PROVE  Kept(s)'
    <3>1. ForGood(stacks'[s])
      BY <2>4, <2>6 DEF ForGood, CertificateARNs
    <3> QED
      BY <2>5, <3>1
  <2>7. CASE UpdateStack
    <3>1. ASSUME NEW owner, Updates(owner) PROVE Kept(s)'
      BY <2>4, <2>5, <2>7, <3>1, UpdatedTimes
    <3> QED
      BY <2>1, <2>3, <2>6, <2>7, <3>1, UpdateStep
  <2>8. CASE Ready
    <3>1. StatusIs("ready") /\ stacks' = stacks
      BY <2>8 DEF Ready, cloudVars
    <3> QED
      BY <1>3, <2>1, <2>3, <2>6, <3>1, StatusLife
  <2>9. CASE StackCallFails
    <3>1. StatusIs("update") /\ "api" \in FaultKinds /\ stacks' = stacks
      BY <1>1, <2>9 DEF StackCallFails, NextLB, Fault, cloudVars
    <3>2. Lasts(snap[s], 1)
      BY <1>3, <2>1, <3>1, StatusLife
    <3>3. MinAge = 0
      BY <3>1 DEF Patient
    <3>4. Kept(s)
      BY <2>2, <2>3, <3>2, <3>3, KeptWithoutAge
    <3>5. s \notin Unused
      BY <2>3 DEF Unused
    <3> QED
      BY <3>4, <3>5, KeptAfterApply
  <2>10. ~CreateStack /\ ~DeleteStack /\ ~QuotaExhausted
    BY DEF CreateStack, DeleteStack, QuotaExhausted, NextLB
  <2> QED
    BY <2>7, <2>8, <2>9, <2>10 DEF Applies
<1> QED
  BY <1>2, <1>3

-----------------------------------------------------------------------------
(* Certificates come and stay                                              *)

LEMMA WantedAvailable ==
  ASSUME TypeOK, NEW id \in DOMAIN listed
  PROVE  Wanted(id) \subseteq available
<1>1. listed[id] \in Resource /\ available \in SUBSET Cert
  BY DEF TypeOK, PartialFunction
<1> QED
  BY <1>1, ConstantsAssumption DEF Wanted, CertificatesFor, Resource

LEMMA KeysAvailable ==
  ASSUME TypeInv, NEW known, CertificatesInv(known), MatchResource
  PROVE  \A j \in DOMAIN model' :
           ~model'[j].clusterLocal => DOMAIN model'[j].ingresses \subseteq available
<1>1. PICK id \in Ident : Place(id)
  BY DEF MatchResource
<1>2. TypeOK
  BY DEF TypeInv, CycleType
<1>3. \A j \in DOMAIN model :
        ~model[j].clusterLocal => DOMAIN model[j].ingresses \subseteq available
  BY DEF CertificatesInv
<1>4. CASE PlaceClusterLocal(id)
  BY <1>2, <1>3, <1>4, StepOfClusterLocal DEF Grows, SameSettings
<1>5. CASE SkipWithoutCertificate(id)
  BY <1>3, <1>5 DEF SkipWithoutCertificate
<1>6. CASE PlaceOnFirstFit(id)
  <2>1. Wanted(id) \subseteq available
    BY <1>2, <1>6, WantedAvailable DEF PlaceOnFirstFit, Turn, TypeOK
  <2>2. PICK i : Grows(i, id, Wanted(id))
    BY <1>2, <1>6, StepOfFirstFit
  <2> QED
    BY <1>3, <2>1, <2>2 DEF Grows, SameSettings, Joined
<1>7. CASE PlaceOnNew(id)
  <2>1. Wanted(id) \subseteq available
    BY <1>2, <1>7, WantedAvailable DEF PlaceOnNew, Turn, TypeOK
  <2> QED
    BY <1>2, <1>3, <1>7, <2>1, StepOfNew DEF Extends
<1> QED
  BY <1>1, <1>4, <1>5, <1>6, <1>7 DEF Place

LEMMA FreshKeys ==
  ASSUME NEW lb, Fresh(lb), ~lb.clusterLocal
  PROVE  DOMAIN lb.ingresses \subseteq available
<1>1. PICK s \in DOMAIN snap : lb = FromStack(s, snap[s], available)
  BY ClusterLocalLBFacts DEF Fresh
<1>2. lb.ingresses = [c \in DOMAIN snap[s].certs \cap available |-> {}]
  BY <1>1 DEF FromStack
<1> QED
  BY <1>2

LEMMA WrittenKeys ==
  ASSUME TypeInv, NEW known, CertificatesInv(known), pc = "apply", at <= Len(model),
         ~Current.clusterLocal
  PROVE  /\ DOMAIN Current.ingresses \subseteq certs
         /\ Current.stack # None => DOMAIN CertificateARNs(Current) \subseteq certs
<1>1. DOMAIN Current.ingresses \subseteq certs /\ FromSnap(Current)
  BY CurrentFacts DEF CertificatesInv, Current
<1>2. Current.stack # None => DOMAIN Current.existing \subseteq certs
  BY <1>1 DEF FromSnap, CertificatesInv
<1> QED
  BY <1>1, <1>2 DEF CertificateARNs, Needed

LEMMA CertificatesStep ==
  ASSUME Patient, TypeInv, NEW known, CertificatesInv(known), [SystemNext]_vars
  PROVE  CertificatesInv(known)'
<1>1. ASSUME UserStep PROVE CertificatesInv(known)'
  <2>1. certs \subseteq certs'
    BY <1>1 DEF UserStep, WriteResource, RemoveResource, WriteAlarms,
                AddCertificate, CertificateExpires, Patient
  <2>2. UNCHANGED <<stacks, previous, snap, available, model, pc>>
    BY <1>1, UserSteps DEF cloudVars, cycleVars, matchVars
  <2> QED
    BY <2>1, <2>2 DEF CertificatesInv
<1>2. ASSUME UNCHANGED vars PROVE CertificatesInv(known)'
  BY <1>2 DEF vars, cloudVars, cycleVars, matchVars, CertificatesInv
<1>3. ASSUME NEW s \in StackName, CloudProgress(s) \/ CloudFailure(s)
      PROVE  CertificatesInv(known)'
  <2>1. CloudMoves /\ UNCHANGED <<snap, available, model, pc, certs>>
    BY <1>3, CloudSteps DEF TypeInv, cycleVars, matchVars
  <2> QED
    BY <2>1 DEF CertificatesInv, CloudMoves
<1>4. ASSUME Tick PROVE CertificatesInv(known)'
  <2>1. /\ stacks' = Aged(stacks) /\ previous' = Aged(previous) /\ snap' = Aged(snap)
        /\ UNCHANGED <<certs, available, pc>>
    BY <1>4 DEF Tick
  <2>2. /\ DOMAIN stacks' = DOMAIN stacks
        /\ \A s \in DOMAIN stacks : DOMAIN stacks'[s].certs = DOMAIN stacks[s].certs
    BY <2>1, AgedSnapshot DEF TypeInv, CloudType
  <2>3. /\ DOMAIN previous' = DOMAIN previous
        /\ \A s \in DOMAIN previous : DOMAIN previous'[s].certs = DOMAIN previous[s].certs
    BY <2>1, AgedSnapshot DEF TypeInv, CloudType
  <2>4. /\ DOMAIN snap' = DOMAIN snap
        /\ \A s \in DOMAIN snap : DOMAIN snap'[s].certs = DOMAIN snap[s].certs
    BY <2>1, AgedSnapshot DEF TypeInv, CycleType, TypeOK
  <2>5. \A i \in DOMAIN model' :
          ~model'[i].clusterLocal => DOMAIN model'[i].ingresses \subseteq available
    BY <1>4, TickStep DEF CertificatesInv
  <2> QED
    BY <2>1, <2>2, <2>3, <2>4, <2>5 DEF CertificatesInv
<1>5. ASSUME Ends PROVE CertificatesInv(known)'
  <2>1. /\ DOMAIN snap' = {} /\ available' = {} /\ DOMAIN model' = {}
        /\ pc' = "sleep" /\ UNCHANGED <<certs, stacks, previous>>
    BY <1>5, EndingSteps, EmptyCycle DEF ForgetCycle, EmptyMap, cloudVars
  <2> QED
    BY <2>1 DEF CertificatesInv, Working
<1>6. ASSUME Quietly PROVE CertificatesInv(known)'
  <2>1. UNCHANGED <<snap, stacks, previous, certs>>
    BY <1>6, QuietSteps
    DEF Quietly, Wake, ListResources, GetStackLBStates, GetCertificates,
        GetCloudWatchAlarms, BuildModel, MatchResource, StartApplying
  <2>2. CASE Wake \/ ListResources \/ GetStackLBStates \/ GetCloudWatchAlarms \/ StartApplying
    <3>1. UNCHANGED <<available, model>>
      BY <2>2 DEF Wake, ListResources, GetStackLBStates, GetCloudWatchAlarms,
                  StartApplying, cycleVars, matchVars
    <3>2. pc' \in {"alarms"} \cup Working => pc \in {"alarms"} \cup Working
      BY <2>2 DEF Wake, ListResources, GetStackLBStates, GetCloudWatchAlarms,
                  StartApplying, Working
    <3> QED
      BY <2>1, <3>1, <3>2 DEF CertificatesInv
  <2>3. CASE GetCertificates /\ certs # {}
    <3>1. available' = certs /\ UNCHANGED model /\ pc = "certs"
      BY <2>3 DEF GetCertificates
    <3>2. DOMAIN model = {}
      BY <3>1, NothingBuilt DEF TypeInv, Loaded
    <3> QED
      BY <2>1, <3>1, <3>2 DEF CertificatesInv
  <2>4. CASE BuildModel
    <3>1. UNCHANGED available /\ pc = "build"
      BY <2>4 DEF BuildModel
    <3>2. \A i \in DOMAIN model' : Fresh(model'[i])
      BY <2>4, BuildStep
    <3>3. \A i \in DOMAIN model' :
            ~model'[i].clusterLocal => DOMAIN model'[i].ingresses \subseteq available
      BY <3>2, FreshKeys
    <3> QED
      BY <2>1, <3>1, <3>3 DEF CertificatesInv, Working
  <2>5. CASE MatchResource
    <3>1. UNCHANGED <<available, pc>>
      BY <2>5 DEF MatchResource, Place, PlaceClusterLocal, SkipWithoutCertificate,
                  PlaceOnFirstFit, PlaceOnNew, inputVars
    <3> QED
      BY <2>1, <2>5, <3>1, KeysAvailable DEF CertificatesInv
  <2> QED
    BY <1>6, <2>2, <2>3, <2>4, <2>5 DEF Quietly
<1>7. ASSUME FindManagedStacks PROVE CertificatesInv(known)'
  <2>1. /\ snap' = stacks /\ pc' = "elbs"
        /\ UNCHANGED <<certs, stacks, previous, available, model>>
    BY <1>7 DEF FindManagedStacks, cloudVars
  <2> QED
    BY <2>1 DEF CertificatesInv, Working
<1>8. ASSUME Applies PROVE CertificatesInv(known)'
  <2>1. /\ pc = "apply" /\ at <= Len(model)
        /\ UNCHANGED <<snap, available, model, certs>>
    BY <1>8, ApplyingSteps DEF matchVars
  <2>2. SUFFICES
          /\ \A s \in DOMAIN stacks' : DOMAIN stacks'[s].certs \subseteq certs
          /\ \A s \in DOMAIN previous' : DOMAIN previous'[s].certs \subseteq certs
    BY <2>1 DEF CertificatesInv, Working
  <2>3. /\ \A s \in DOMAIN stacks : DOMAIN stacks[s].certs \subseteq certs
        /\ \A s \in DOMAIN previous : DOMAIN previous[s].certs \subseteq certs
    BY DEF CertificatesInv
  <2>4. CASE CreateStack
    <3>1. PICK n \in StackName : \E owner : Creates(n, owner)
      BY <2>4, CreateStep
    <3>2. PICK owner : Creates(n, owner)
      BY <3>1
    <3>3. DOMAIN CreatedStack(owner).certs \subseteq certs
      BY <2>1, <2>4, CreateStep, WrittenKeys DEF CreatedStack
    <3> QED
      BY <2>3, <3>2, <3>3 DEF Creates
  <2>5. CASE UpdateStack
    <3>1. DOMAIN CertificateARNs(Current) \subseteq certs
      BY <2>1, <2>5, StatusFacts, WrittenKeys DEF UpdateStack
    <3>2. \A owner : UpdatedStack(owner).certs = CertificateARNs(Current)
      BY DEF UpdatedStack
    <3>3. ASSUME NEW owner, Updates(owner)
          PROVE  /\ \A s \in DOMAIN stacks' : DOMAIN stacks'[s].certs \subseteq certs
                 /\ \A s \in DOMAIN previous' : DOMAIN previous'[s].certs \subseteq certs
      BY <2>3, <3>1, <3>2, <3>3 DEF Updates
    <3> QED
      BY <2>3, <2>5, <3>3, UpdateStep
  <2>6. CASE DeleteStack
    <3>1. ASSUME NEW s, s = Current.stack, s \in DOMAIN stacks
          PROVE  DOMAIN stacks'[s].certs \subseteq certs
      <4>1. stacks'[s] = [stacks[s] EXCEPT !.status = "deleting"] /\ IsStack(stacks[s])
        BY <2>6, <3>1, DeleteStep DEF Deletes, TypeInv, CloudType, IsSnapshot
      <4> QED
        BY <2>3, <3>1, <4>1, ChangedStatus DEF Status
    <3> QED
      BY <2>3, <2>6, <3>1, DeleteStep DEF Deletes, Dropped
  <2>7. CASE Ready \/ StackCallFails \/ QuotaExhausted
    BY <2>3, <2>7 DEF Ready, StackCallFails, QuotaExhausted, cloudVars
  <2> QED
    BY <1>8, <2>4, <2>5, <2>6, <2>7 DEF Applies
<1>9. ASSUME NEW id \in Ident, UpdateIngressLoadBalancer(id) \/ PatchFails(id)
      PROVE  CertificatesInv(known)'
  <2>1. /\ Dequeue(id) /\ UNCHANGED <<snap, available, model, stacks, previous>>
        /\ UNCHANGED certs
    BY <1>9, PublishingSteps
    DEF cloudVars, matchVars, UpdateIngressLoadBalancer, PatchFails
  <2>2. pc = "publish"
    BY <2>1 DEF Dequeue
  <2> QED
    BY <2>1, <2>2 DEF CertificatesInv, Working
<1> QED
  BY <1>1, <1>2, <1>3, <1>4, <1>5, <1>6, <1>7, <1>8, <1>9, StepCases


LEMMA FaultsLeft ==
  ASSUME TypeInv, UserStep \/ Ends \/ Quietly \/ FindManagedStacks
                  \/ \E id \in Ident : UpdateIngressLoadBalancer(id) \/ PatchFails(id)
  PROVE  faults' <= faults
<1>1. faults \in Int
  BY DEF TypeInv, BudgetType
<1>2. faults' = faults \/ faults' = faults - 1
  <2>1. CASE UserStep
    BY <2>1 DEF UserStep, WriteResource, RemoveResource, WriteAlarms,
                AddCertificate, CertificateExpires, Change
  <2>2. CASE Ends
    BY <2>2 DEF Ends, GetCertificates, CycleFails, FinishCycle, Restart, Fault, budget
  <2>3. CASE Quietly
    BY <2>3 DEF Quietly, Wake, ListResources, GetStackLBStates, GetCertificates,
                GetCloudWatchAlarms, BuildModel, MatchResource, StartApplying,
                Fault, budget
  <2>4. CASE FindManagedStacks
    BY <2>4 DEF FindManagedStacks, budget
  <2>5. ASSUME NEW id \in Ident, UpdateIngressLoadBalancer(id) \/ PatchFails(id)
        PROVE  faults' = faults \/ faults' = faults - 1
    BY <2>5 DEF UpdateIngressLoadBalancer, PatchFails, Fault, budget
  <2> QED
    BY <2>1, <2>2, <2>3, <2>4, <2>5
<1> QED
  BY <1>1, <1>2

LEMMA LifeWhenStill ==
  ASSUME LifeInv, BudgetType, BudgetType', faults' <= faults, UNCHANGED cloudVars,
         \A s \in DOMAIN stacks :
           Pending(s)' => snap' = stacks \/ (snap' = snap /\ Pending(s))
  PROVE  LifeInv'
<1>1. UNCHANGED <<stacks, previous, elb, young>>
  BY DEF cloudVars
<1>2. \A s \in DOMAIN stacks : StageLife(s)'
  BY <1>1, LifeOfOthers
<1>3. \A s \in DOMAIN stacks : Pending(s)' => AsRead(s)'
  BY <1>1 DEF LifeInv, AsRead, Lasts
<1> QED
  BY <1>1, <1>2, <1>3 DEF LifeInv, Lasts

(* Nothing but complete stacks and some that could not be deleted: time    *)
(* passes when the controller and CloudFormation are done.                 *)
LEMMA QuietTick ==
  ASSUME Patient, TypeInv, Tick
  PROVE  /\ pc = "sleep" /\ idle /\ snap = EmptyMap /\ \A s \in DOMAIN stacks : Quiet(s)
         /\ DOMAIN previous = {} /\ DOMAIN previous' = {} /\ DOMAIN snap' = {}
         /\ DOMAIN stacks' = DOMAIN stacks /\ DOMAIN stacks \subseteq StackName
         /\ UNCHANGED <<elb, pc, kubeVars, model, at>>
         /\ \A s \in StackName : young'[s] = Later(young[s])
         /\ \A s \in DOMAIN stacks :
              /\ IsStack(stacks[s]) /\ IsStack(stacks'[s])
              /\ stacks'[s].status = stacks[s].status
              /\ DOMAIN stacks'[s].certs = DOMAIN stacks[s].certs
              /\ \A c \in DOMAIN stacks[s].certs :
                   stacks'[s].certs[c] = Later(stacks[s].certs[c])
<1>1. /\ pc = "sleep" /\ idle /\ \A s \in DOMAIN stacks : Quiet(s)
      /\ stacks' = Aged(stacks) /\ previous' = Aged(previous) /\ snap' = Aged(snap)
      /\ young' = [s \in StackName |-> Later(young[s])]
      /\ UNCHANGED <<elb, pc, kubeVars, at>>
  BY DEF Tick, Patient
<1>2. snap = EmptyMap /\ DOMAIN snap = {} /\ model = <<>>
  BY <1>1 DEF TypeInv, CycleType, StageInv, EmptyMap, Loaded
<1>3. DOMAIN previous = {}
  BY <1>1 DEF TypeInv, CloudType, Quiet
<1>4. DOMAIN snap' = {} /\ DOMAIN previous' = {}
  BY <1>1, <1>2, <1>3 DEF Aged
<1>5. UNCHANGED model
  BY <1>2, EmptyCycle DEF Tick
<1>6. /\ IsSnapshot(stacks') /\ DOMAIN stacks' = DOMAIN stacks
      /\ \A s \in DOMAIN stacks :
           /\ stacks'[s].status = stacks[s].status
           /\ DOMAIN stacks'[s].certs = DOMAIN stacks[s].certs
           /\ \A c \in DOMAIN stacks[s].certs :
                stacks'[s].certs[c] = Later(stacks[s].certs[c])
  BY <1>1, AgedSnapshot DEF TypeInv, CloudType
<1>7. IsSnapshot(stacks)
  BY DEF TypeInv, CloudType
<1> QED
  BY <1>1, <1>2, <1>3, <1>4, <1>5, <1>6, <1>7 DEF IsSnapshot

LEMMA LifeStep ==
  ASSUME Patient, TypeInv, NEW known, CertificatesInv(known), LifeInv, [SystemNext]_vars
  PROVE  LifeInv'
<1>1. BudgetType /\ BudgetType' /\ faults \in Int
  BY TypeStep DEF TypeInv, BudgetType
<1>2. CASE UserStep
  <2>1. UNCHANGED cloudVars /\ UNCHANGED <<snap, model, at, pc>>
    BY <1>2, UserSteps DEF cycleVars, matchVars
  <2> QED
    BY <1>1, <1>2, <2>1, FaultsLeft, LifeWhenStill, PendingKept
<1>3. CASE UNCHANGED vars
  <2>1. UNCHANGED cloudVars /\ UNCHANGED <<snap, model, at, pc, faults>>
    BY <1>3 DEF vars, cycleVars, matchVars, budget
  <2> QED
    BY <1>1, <2>1, LifeWhenStill, PendingKept
<1>4. ASSUME NEW s \in StackName, CloudProgress(s) \/ CloudFailure(s)
      PROVE  LifeInv'
  BY <1>4, CloudLife
<1>5. CASE Tick
  <2>1. ASSUME NEW s \in DOMAIN stacks PROVE StageLife(s)'
    <3>1. /\ IsStack(stacks[s]) /\ IsStack(stacks'[s]) /\ Quiet(s)
          /\ stacks'[s].status = stacks[s].status
          /\ DOMAIN stacks'[s].certs = DOMAIN stacks[s].certs
          /\ \A c \in DOMAIN stacks[s].certs :
               stacks'[s].certs[c] = Later(stacks[s].certs[c])
          /\ elb' = elb
      BY <1>5, QuietTick
    <3>2. Lasts(stacks'[s], 1) => Lasts(stacks[s], 2)
      BY <3>1, LastsLater
    <3>3. Lasts(stacks'[s], 1) => Lasts(stacks[s], 1)
      BY <3>1, <3>2, LastsLess
    <3>4. /\ stacks[s].status \in {"complete", "updating"} => elb[s] # "none"
          /\ stacks[s].status = "delete_failed" => ~Lasts(stacks[s], 1)
      BY DEF LifeInv, StageLife
    <3> QED
      BY <3>1, <3>3, <3>4 DEF StageLife, Quiet
  <2>2. DOMAIN stacks' = DOMAIN stacks /\ DOMAIN previous' = {} /\ DOMAIN snap' = {}
    BY <1>5, QuietTick
  <2> QED
    BY <2>1, <2>2 DEF LifeInv, Pending
<1>6. CASE Ends
  <2>1. DOMAIN snap' = {} /\ UNCHANGED cloudVars
    BY <1>6, EndingSteps DEF ForgetCycle, EmptyMap
  <2> QED
    BY <1>1, <1>6, <2>1, FaultsLeft, LifeWhenStill DEF Pending
<1>7. CASE Quietly
  <2>1. UNCHANGED cloudVars
    BY <1>7 DEF Quietly, Wake, ListResources, GetStackLBStates, GetCertificates,
                GetCloudWatchAlarms, BuildModel, MatchResource, StartApplying, EndCycle
  <2> QED
    BY <1>1, <1>7, <2>1, FaultsLeft, LifeWhenStill, QuietSteps
<1>8. CASE FindManagedStacks
  <2>1. UNCHANGED cloudVars /\ snap' = stacks
    BY <1>8 DEF FindManagedStacks
  <2> QED
    BY <1>1, <1>8, <2>1, FaultsLeft, LifeWhenStill
<1>9. CASE Applies
  BY <1>9, LifeAfterApply
<1>10. ASSUME NEW id \in Ident, UpdateIngressLoadBalancer(id) \/ PatchFails(id)
       PROVE  LifeInv'
  <2>1. Dequeue(id) /\ UNCHANGED cloudVars /\ UNCHANGED <<snap, model>>
    BY <1>10, PublishingSteps DEF matchVars
  <2> QED
    BY <1>1, <1>10, <2>1, FaultsLeft, LifeWhenStill, PendingAfterPublish
<1> QED
  BY <1>2, <1>3, <1>4, <1>5, <1>6, <1>7, <1>8, <1>9, <1>10, StepCases

-----------------------------------------------------------------------------
(* Nobody is left out                                                      *)

PlacedInv == pc \in Loaded => PlacedOnce

LEMMA PlacedStep ==
  ASSUME Patient, TypeInv, PlacedInv, [SystemNext]_vars
  PROVE  PlacedInv'
<1>1. ASSUME UNCHANGED matchVars, pc' \in Loaded => pc \in Loaded
      PROVE  PlacedInv'
  BY <1>1 DEF matchVars, PlacedInv, PlacedOnce, ServedBy, Keys, Wanted
<1>2. CASE UserStep \/ UNCHANGED vars
  BY <1>1, <1>2, UserSteps DEF vars, cycleVars
<1>3. ASSUME NEW s \in StackName, CloudProgress(s) \/ CloudFailure(s)
      PROVE  PlacedInv'
  BY <1>1, <1>3, CloudSteps DEF cycleVars, TypeInv
<1>4. CASE Tick \/ Ends \/ FindManagedStacks
  <2>1. pc' \notin Loaded
    BY <1>4, QuietTick, EndingSteps DEF Loaded, FindManagedStacks
  <2> QED
    BY <2>1 DEF PlacedInv
<1>5. CASE Applies
  BY <1>1, <1>5, ApplyingSteps DEF Loaded
<1>6. ASSUME NEW id \in Ident, UpdateIngressLoadBalancer(id) \/ PatchFails(id)
      PROVE  PlacedInv'
  BY <1>1, <1>6, PublishingSteps DEF Dequeue, Loaded
<1>7. CASE Wake \/ ListResources \/ GetStackLBStates
           \/ (GetCertificates /\ certs # {}) \/ GetCloudWatchAlarms
  BY <1>7 DEF Wake, ListResources, GetStackLBStates, GetCertificates,
              GetCloudWatchAlarms, PlacedInv, Loaded
<1>8. CASE StartApplying
  BY <1>1, <1>8 DEF StartApplying, Loaded
<1>9. CASE BuildModel
  <2>1. IsSnapshot(snap) /\ available \in SUBSET Cert
    BY DEF TypeInv, CycleType, TypeOK
  <2>2. \A i \in DOMAIN model' : Members(model'[i]) = {}
    BY <1>9, <2>1, BuildStep, FreshType
  <2>3. todo' = DOMAIN listed' /\ \A id : ServedBy(id)' = {}
    BY <1>9, <2>2 DEF BuildModel, ServedBy
  <2> QED
    BY <2>3 DEF PlacedInv, PlacedOnce
<1>10. CASE MatchResource
  <2>1. TypeOK /\ PlacedOnce /\ Next
    BY <1>10 DEF MatchResource, Next, TypeInv, CycleType, PlacedInv, Loaded
  <2> QED
    BY <2>1, PlacedByStep DEF PlacedInv
<1> QED
  BY <1>2, <1>3, <1>4, <1>5, <1>6, <1>7, <1>8, <1>9, <1>10, StepCases DEF Quietly

(* Resource id is where the last load balancer that fits it is, or there   *)
(* is one that is not ready yet.                                           *)
AtHome(id) ==
  \/ hostname[id] = None
  \/ \E s \in DOMAIN stacks :
       /\ Lasts(stacks[s], 1)
       /\ IsComplete(stacks[s]) =>
            /\ ForGood(stacks[s])
            /\ elb[s] = "active" /\ young[s] = 0 => hostname[id] = s

(* The time that passes while a resource waits for a load balancer is time *)
(* by which that load balancer ages.                                       *)
LEMMA KeptAfterTick ==
  ASSUME Patient, TypeInv, LifeInv, Tick, NEW id \in Ident, AtHome(id),
         NEW s, s = hostname[id], Kept(s)
  PROVE  Kept(s)'
<1> SUFFICES ASSUME s \in DOMAIN stacks'
             PROVE  Lasts(stacks'[s], Cardinality(Youth(s)') + 1)
  BY DEF Kept
<1>1. /\ s \in DOMAIN stacks /\ DOMAIN stacks' = DOMAIN stacks
      /\ DOMAIN stacks \subseteq StackName
      /\ \A t \in StackName : young'[t] = Later(young[t]) /\ young[t] \in 0 .. MinAge
      /\ \A t \in DOMAIN stacks :
           /\ IsStack(stacks[t]) /\ IsStack(stacks'[t]) /\ Quiet(t)
           /\ DOMAIN stacks'[t].certs = DOMAIN stacks[t].certs
           /\ \A c \in DOMAIN stacks[t].certs :
                stacks'[t].certs[c] = Later(stacks[t].certs[c])
  BY QuietTick DEF TypeInv, CloudType
<1>2. \A t \in StackName : young'[t] \in Nat /\ young'[t] <= young[t]
                           /\ (young[t] > 0 => young'[t] = young[t] - 1)
  BY <1>1, ControllerAssumption DEF Later
<1>3. \A t \in DOMAIN stacks : \A n \in Nat :
        n >= 1 => (Lasts(stacks'[t], n) <=> Lasts(stacks[t], n + 1))
  BY <1>1, LastsLater
<1>4. \A t \in DOMAIN stacks : ForGood(stacks[t]) => \A n : Lasts(stacks'[t], n)
  <2>1. Later(NoExpiry) = NoExpiry
    BY DEF Later, NoExpiry
  <2> QED
    BY <1>1, <2>1 DEF ForGood, Lasts
<1>5. CASE ForGood(stacks[s])
  BY <1>1, <1>4, <1>5
<1>6. CASE ~ForGood(stacks[s])
  <2>1. s # None
    BY <1>1, ConstantsAssumption
  <2>2. PICK b \in DOMAIN stacks :
          /\ Lasts(stacks[b], 1)
          /\ IsComplete(stacks[b]) =>
               /\ ForGood(stacks[b])
               /\ elb[b] = "active" /\ young[b] = 0 => hostname[id] = b
    BY <2>1 DEF AtHome
  <2>3. stacks[b].status = "complete"
    BY <1>1, <2>2 DEF LifeInv, StageLife, Quiet
  <2>4. elb[b] = "active"
    BY <1>1, <2>2, <2>3 DEF LifeInv, StageLife, Quiet, TypeInv, CloudType
  <2>5. b # s /\ young[b] # 0 /\ ForGood(stacks[b]) /\ b \in StackName
    BY <1>1, <1>6, <2>2, <2>3, <2>4 DEF IsComplete
  <2>6. young[b] \in 1 .. MinAge /\ MinAge \in Nat /\ young'[b] = young[b] - 1
    BY <1>1, <1>2, <2>5, ControllerAssumption
  <2>7. Level = 1 .. CertTTL /\ CertTTL \in Nat
    BY <2>6, LevelFacts
  <2> DEFINE y == <<b, young[b]>>
  <2>8. y \in Youth(s)
    BY <2>5, <2>6 DEF Youth
  <2>9. y \notin Youth(s)'
    <3>1. Outlasts(b, s)'
      BY <1>1, <1>4, <2>2, <2>5 DEF Outlasts
    <3>2. ~(young[b] <= young'[b])
      BY <2>6
    <3> QED
      BY <3>1, <3>2 DEF Youth
  <2> HIDE DEF y
  <2>10. ASSUME NEW n \in Level, Lasts(stacks'[s], n)
         PROVE  n + 1 \in Level /\ Lasts(stacks[s], n + 1)
    <3>1. n \in Nat /\ n >= 1 /\ Lasts(stacks[s], n + 1)
      BY <1>1, <1>3, <2>7, <2>10
    <3>2. PICK c \in DOMAIN stacks[s].certs : stacks[s].certs[c] >= n + 1
      BY <1>6, <3>1 DEF Lasts, ForGood
    <3>3. stacks[s].certs[c] \in 0 .. CertTTL
      BY <1>1, <1>6, <3>2 DEF IsStack, Expiry, ForGood
    <3> QED
      BY <2>7, <3>1, <3>2, <3>3
  <2>11. \A t : Outlasts(t, s) => Outlasts(t, s)'
    <3> SUFFICES ASSUME NEW t, Outlasts(t, s), NEW n \in Level, Lasts(stacks'[s], n)
                 PROVE  t \in DOMAIN stacks /\ Lasts(stacks'[t], n)
      BY <1>1 DEF Outlasts, Lasts, Level
    <3>1. t \in DOMAIN stacks /\ Lasts(stacks[t], n + 1)
      BY <2>10 DEF Outlasts
    <3>2. n \in Nat /\ n >= 1
      BY <2>7
    <3> QED
      BY <1>3, <3>1, <3>2
  <2>12. Youth(s)' \subseteq Youth(s) \ {y}
    <3> SUFFICES ASSUME NEW t \in StackName \ {s}, NEW k \in 1 .. MinAge,
                        Outlasts(t, s)' => k <= young'[t], Outlasts(t, s)
                 PROVE  k <= young[t]
      BY <2>9 DEF Youth
    <3>1. k <= young'[t]
      BY <2>11
    <3> QED
      BY <1>1, <1>2, <3>1
  <2>13. /\ Youth(s) \subseteq (StackName \ {s}) \X (1 .. MinAge)
         /\ Youth(s)' \subseteq (StackName \ {s}) \X (1 .. MinAge)
    BY DEF Youth
  <2>14. /\ IsFiniteSet(Youth(s)) /\ Cardinality(Youth(s)) \in Nat
         /\ Cardinality(Youth(s)') \in Nat
    BY <1>1, <2>13, YouthSize
  <2>15. /\ IsFiniteSet(Youth(s) \ {y})
         /\ Cardinality(Youth(s) \ {y}) = Cardinality(Youth(s)) - 1
    BY <2>8, <2>14, FS_RemoveElement
  <2>16. Cardinality(Youth(s)') <= Cardinality(Youth(s)) - 1
    BY <2>12, <2>15, FS_Subset
  <2>17. Lasts(stacks'[s], Cardinality(Youth(s)))
    <3>1. Lasts(stacks[s], Cardinality(Youth(s)) + 1)
      BY <1>1 DEF Kept
    <3> QED
      BY <1>1, <1>3, <2>14, <2>16, <3>1
  <2> QED
    BY <1>1, <2>14, <2>16, <2>17, LastsLess
<1> QED
  BY <1>5, <1>6

-----------------------------------------------------------------------------
(* Everybody is on a stack that is kept                                    *)

KeptInv ==
  /\ rgSupport
  /\ \A id \in Ident \ DOMAIN kube : hostname[id] = None
  /\ \A id \in Ident : Kept(hostname[id])
  /\ pc = "publish" => Kept(Current.stack)
  /\ \A id \in Ident : Pending(hostname[id]) => Lasts(snap[hostname[id]], 1)

LEMMA KeptStill ==
  ASSUME UNCHANGED <<stacks, young>>, NEW s
  PROVE  Kept(s)' <=> Kept(s)
BY DEF Kept, Youth, Outlasts, Lasts, Level

LEMMA NoStackKept ==
  ASSUME CloudType
  PROVE  Kept(None)
BY ConstantsAssumption DEF CloudType, IsSnapshot, Kept

LEMMA KnownWithHostname ==
  ASSUME Patient, TypeInv, KeptInv, [SystemNext]_vars
  PROVE  rgSupport' /\ \A id \in Ident \ DOMAIN kube' : hostname'[id] = None
<1>1. ASSUME UNCHANGED <<kube, hostname, rgSupport>>
      PROVE  rgSupport' /\ \A id \in Ident \ DOMAIN kube' : hostname'[id] = None
  BY <1>1 DEF KeptInv
<1>2. CASE UserStep
  <2>1. rgSupport'
    BY <1>2, UserSteps DEF KeptInv
  <2>2. ASSUME NEW x \in Ident, WriteResource(x)
        PROVE  \A id \in Ident \ DOMAIN kube' : hostname'[id] = None
    BY <2>2 DEF WriteResource, KeptInv
  <2>3. ASSUME NEW x \in Ident, RemoveResource(x)
        PROVE  \A id \in Ident \ DOMAIN kube' : hostname'[id] = None
    BY <2>3 DEF RemoveResource, KeptInv, TypeInv, UserType
  <2>4. ASSUME WriteAlarms \/ AddCertificate \/ CertificateExpires
        PROVE  \A id \in Ident \ DOMAIN kube' : hostname'[id] = None
    BY <2>4 DEF WriteAlarms, AddCertificate, CertificateExpires, kubeVars, KeptInv
  <2> QED
    BY <1>2, <2>1, <2>2, <2>3, <2>4 DEF UserStep
<1>3. CASE UNCHANGED vars \/ Tick
  BY <1>1, <1>3 DEF vars, kubeVars, Tick
<1>4. ASSUME NEW s \in StackName, CloudProgress(s) \/ CloudFailure(s)
      PROVE  rgSupport' /\ \A id \in Ident \ DOMAIN kube' : hostname'[id] = None
  BY <1>1, <1>4, CloudSteps DEF TypeInv, kubeVars
<1>5. CASE Ends
  <2>1. rgSupport' = rgSupport \/ rgSupport'
    BY <1>5 DEF Ends, GetCertificates, CycleFails, FinishCycle, Restart
  <2> QED
    BY <1>5, <2>1, EndingSteps DEF KeptInv, kubeVars
<1>6. CASE Quietly
  <2>1. ~Fault("forbidden")
    BY DEF Patient, Fault
  <2>2. UNCHANGED <<kubeVars, rgSupport>>
    BY <1>6, <2>1 DEF Quietly, Wake, ListResources, GetStackLBStates, GetCertificates,
                      GetCloudWatchAlarms, BuildModel, MatchResource, StartApplying
  <2> QED
    BY <1>1, <2>2 DEF kubeVars
<1>7. CASE FindManagedStacks
  BY <1>1, <1>7 DEF FindManagedStacks, kubeVars
<1>8. CASE Applies
  BY <1>1, <1>8, ApplyingSteps DEF kubeVars
<1>9. ASSUME NEW x \in Ident, UpdateIngressLoadBalancer(x) \/ PatchFails(x)
      PROVE  rgSupport' /\ \A id \in Ident \ DOMAIN kube' : hostname'[id] = None
  BY <1>1, <1>9 DEF UpdateIngressLoadBalancer, PatchFails, kubeVars, KeptInv,
                    TypeInv, UserType
<1> QED
  BY <1>2, <1>3, <1>4, <1>5, <1>6, <1>7, <1>8, <1>9, StepCases

LEMMA KeptStep ==
  ASSUME Patient, TypeInv, SnapInv, NEW known, CertificatesInv(known), LifeInv,
         KeptInv, [SystemNext]_vars,
         Tick => \A id \in DOMAIN kube : AtHome(id)
  PROVE  KeptInv'
<1>1. SUFFICES /\ \A id \in Ident : Kept(hostname[id])'
               /\ pc' = "publish" => Kept(Current.stack)'
               /\ \A id \in Ident : Pending(hostname[id])' => Lasts(snap[hostname[id]], 1)'
  BY KnownWithHostname DEF KeptInv
<1> DEFINE Goal ==
      /\ \A id \in Ident : Kept(hostname[id])'
      /\ pc' = "publish" => Kept(Current.stack)'
      /\ \A id \in Ident : Pending(hostname[id])' => Lasts(snap[hostname[id]], 1)'
<1> HIDE DEF Goal
<1>2. Kept(None) /\ ~Pending(None)
  BY NoStackKept, ConstantsAssumption
  DEF TypeInv, CycleType, TypeOK, IsSnapshot, Pending
<1>3. ASSUME UserStep \/ UNCHANGED vars PROVE Goal
  <2>1. /\ UNCHANGED <<snap, model, at, pc, stacks, young>>
        /\ \A id \in Ident : hostname'[id] \in {hostname[id], None}
    BY <1>3, UserSteps DEF vars, kubeVars, cloudVars, cycleVars, matchVars
  <2>2. \A s : Kept(s)' <=> Kept(s)
    BY <2>1, KeptStill
  <2>3. \A s : (Pending(s)' <=> Pending(s)) /\ (Lasts(snap[s], 1)' <=> Lasts(snap[s], 1))
    BY <2>1, PendingKept DEF Lasts
  <2> QED
    BY <1>2, <2>1, <2>2, <2>3 DEF KeptInv, Current, Goal
<1>4. ASSUME NEW x \in StackName, CloudProgress(x) \/ CloudFailure(x)
      PROVE  Goal
  <2>1. UNCHANGED <<snap, model, at, pc, hostname>>
    BY <1>4, CloudSteps DEF TypeInv, cycleVars, matchVars, kubeVars
  <2>2. \A s : Kept(s) => Kept(s)'
    BY <1>4, KeptWhileCloudMoves
  <2>3. \A s : (Pending(s)' <=> Pending(s)) /\ (Lasts(snap[s], 1)' <=> Lasts(snap[s], 1))
    BY <2>1, PendingKept DEF Lasts
  <2> QED
    BY <2>1, <2>2, <2>3 DEF KeptInv, Current, Goal
<1>5. ASSUME Tick PROVE Goal
  <2>1. DOMAIN snap' = {} /\ pc' = "sleep" /\ hostname' = hostname
    BY <1>5, QuietTick DEF kubeVars
  <2>2. \A id \in Ident : AtHome(id)
    BY <1>5 DEF KeptInv, AtHome
  <2>3. \A id \in Ident : \A s : s = hostname[id] => Kept(s)'
    BY <1>5, <2>2, KeptAfterTick DEF KeptInv
  <2>4. \A id \in Ident : Kept(hostname[id])'
    BY <2>1, <2>3
  <2> QED
    BY <2>1, <2>4 DEF Pending, Goal
<1>6. ASSUME Ends PROVE Goal
  <2>1. /\ DOMAIN snap' = {} /\ pc' = "sleep" /\ hostname' = hostname
        /\ UNCHANGED <<stacks, young>>
    BY <1>6, EndingSteps DEF ForgetCycle, EmptyMap, cloudVars, kubeVars
  <2>2. \A id \in Ident : Kept(hostname[id])'
    BY <2>1, KeptStill DEF KeptInv
  <2> QED
    BY <2>1, <2>2 DEF Pending, Goal
<1>7. ASSUME Quietly PROVE Goal
  <2>1. UNCHANGED <<snap, stacks, young, hostname>> /\ pc' # "publish"
    BY <1>7, QuietSteps DEF Quietly, Wake, ListResources, GetStackLBStates,
       GetCertificates, GetCloudWatchAlarms, BuildModel, MatchResource,
       StartApplying, cloudVars
  <2>2. \A s : Kept(s)' <=> Kept(s)
    BY <2>1, KeptStill
  <2>3. \A s : (Pending(s)' <=> Pending(s)) /\ (Lasts(snap[s], 1)' <=> Lasts(snap[s], 1))
    BY <1>7, <2>1, QuietSteps DEF Lasts
  <2> QED
    BY <2>1, <2>2, <2>3 DEF KeptInv, Goal
<1>8. ASSUME FindManagedStacks PROVE Goal
  <2>1. /\ snap' = stacks /\ pc' = "elbs" /\ UNCHANGED <<stacks, young, hostname>>
    BY <1>8 DEF FindManagedStacks, cloudVars, kubeVars
  <2>2. \A s : Kept(s)' <=> Kept(s)
    BY <2>1, KeptStill
  <2>3. ASSUME NEW id \in Ident, Pending(hostname[id])'
        PROVE  Lasts(snap[hostname[id]], 1)'
    <3>1. hostname[id] \in DOMAIN stacks
      BY <2>1, <2>3 DEF Pending
    <3>2. Lasts(stacks[hostname[id]], 1)
      BY <3>1, KeptAlive DEF KeptInv, TypeInv
    <3> QED
      BY <2>1, <3>2 DEF Lasts
  <2> QED
    BY <2>1, <2>2, <2>3 DEF KeptInv, Goal
<1>9. ASSUME Applies PROVE Goal
  <2>1. /\ pc = "apply" /\ at <= Len(model) /\ (NextLB \/ Publish)
        /\ UNCHANGED <<snap, model, hostname>>
    BY <1>9, ApplyingSteps DEF matchVars, kubeVars
  <2>2. ASSUME NEW id \in Ident PROVE Kept(hostname[id])'
    <3>1. \A s : s = hostname[id] => Kept(s) /\ s \notin Unused
      BY DEF KeptInv, Unused
    <3>2. \A s : s = hostname[id] => Kept(s)'
      BY <1>9, <3>1, KeptAfterApply
    <3> QED
      BY <2>1, <3>2
  <2>3. ASSUME pc' = "publish" PROVE Kept(Current.stack)'
    <3>1. \A s : s = Current.stack => Kept(s)'
      BY <1>9, <2>3, PublishedKept
    <3>2. Current' = Current
      BY <2>1, <2>3 DEF NextLB, Publish, Current
    <3> QED
      BY <3>1, <3>2
  <2>4. ASSUME NEW id \in Ident, Pending(hostname[id])'
        PROVE  Lasts(snap[hostname[id]], 1)'
    <3>1. Lasts(snap[hostname[id]], 1)
      BY <2>1, <2>4, PendingAfterApply DEF KeptInv
    <3> QED
      BY <2>1, <3>1 DEF Lasts
  <2> QED
    BY <2>2, <2>3, <2>4 DEF Goal
<1>10. ASSUME NEW id \in Ident, UpdateIngressLoadBalancer(id) \/ PatchFails(id)
       PROVE  Goal
  <2>1. /\ Dequeue(id) /\ UNCHANGED <<snap, model, stacks, young>>
        /\ \A x \in Ident :
             hostname'[x] = hostname[x] \/ (x = id /\ hostname'[x] = Current.stack)
    BY <1>10, PublishingSteps DEF cloudVars, matchVars
  <2>2. \A s : Kept(s)' <=> Kept(s)
    BY <2>1, KeptStill
  <2>3. /\ pc = "publish"
        /\ pc' = "publish" => Current' = Current
    BY <2>1 DEF Dequeue, Current
  <2>4. ~Pending(Current.stack)
    BY <2>3 DEF Pending, Current, TypeInv, CycleType, StageInv
  <2>5. \A s : (Pending(s)' <=> Pending(s)) /\ (Lasts(snap[s], 1)' <=> Lasts(snap[s], 1))
    BY <2>1, PendingAfterPublish DEF Lasts
  <2>6. \A x \in Ident : Kept(hostname'[x])
    BY <2>1, <2>3 DEF KeptInv
  <2>7. \A x \in Ident : Pending(hostname'[x]) => Lasts(snap[hostname'[x]], 1)
    BY <2>1, <2>4 DEF KeptInv
  <2>8. pc' = "publish" => Kept(Current.stack)'
    BY <2>2, <2>3 DEF KeptInv
  <2>9. \A x \in Ident : Kept(hostname[x])'
    BY <2>2, <2>6
  <2>10. \A x \in Ident : Pending(hostname[x])' => Lasts(snap[hostname[x]], 1)'
    BY <2>5, <2>7
  <2> QED
    BY <2>8, <2>9, <2>10 DEF Goal
<1>11. Goal
  BY <1>3, <1>4, <1>5, <1>6, <1>7, <1>8, <1>9, <1>10, StepCases
<1> QED
  BY <1>1, <1>11 DEF Goal

-----------------------------------------------------------------------------
(* A cycle that does nothing has found everybody at home                   *)

(* What an idle cycle has read is still so.                                *)
UpToDate ==
  /\ pc \notin {"sleep", "resources"} =>
       /\ DOMAIN listed = DOMAIN kube /\ view.hostname = hostname
       /\ \A id \in DOMAIN kube :
            listed[id].hosts = kube[id].hosts /\ listed[id].pinned = kube[id].pinned
  /\ pc \notin {"sleep", "resources", "stacks"} => snap = stacks
  /\ pc \notin {"sleep", "resources", "stacks", "elbs"} =>
       view.active = {s \in DOMAIN stacks : elb[s] = "active"}
  /\ pc \in {"alarms"} \cup Working => available = certs

(* Where an idle cycle has been, there was nothing to do.                  *)
NothingLeft ==
  /\ pc \in {"apply", "publish"} =>
       \A i \in DOMAIN model : i < at => \A id \in Members(model[i]) : AtHome(id)
  /\ pc = "sleep" => \A id \in DOMAIN kube : AtHome(id)

IdleInv == idle => UpToDate /\ NothingLeft

LEMMA HomeStill ==
  ASSUME UNCHANGED <<stacks, elb, young, hostname>>, NEW id
  PROVE  AtHome(id)' <=> AtHome(id)
BY DEF AtHome, Lasts, ForGood, IsComplete

LEMMA CurrentAtHome ==
  ASSUME Patient, TypeInv, NEW known, CertificatesInv(known), LifeInv,
         UpToDate, NEW status \in {"ready", "update"}, StatusIs(status), ToPublish = {},
         status = "update" =>
           (Current.stack \in DOMAIN stacks /\ IsComplete(stacks[Current.stack])
              => stacks[Current.stack].certs = CertificateARNs(Current)),
         NEW id \in Members(Current)
  PROVE  AtHome(id)
<1>1. pc = "apply" /\ at <= Len(model) /\ (Current.clusterLocal \/ Current.stack # None)
  BY StatusFacts
<1>2. /\ view.hostname = hostname /\ snap = stacks
      /\ view.active = {s \in DOMAIN stacks : elb[s] = "active"}
  BY <1>1 DEF UpToDate
<1>3. CASE Current.clusterLocal
  <2>1. Current.stack = None
    BY <1>1, <1>3, CurrentFacts DEF LBInv, SharingKept
  <2>2. view.hostname[id] = None
    BY <1>3, <2>1 DEF ToPublish
  <2> QED
    BY <1>2, <2>2 DEF AtHome
<1>4. CASE ~Current.clusterLocal
  <2> DEFINE s == Current.stack
  <2>1. s \in DOMAIN stacks /\ s # None
    BY <1>1, <1>2, <1>4, CurrentSnap
  <2>2. Lasts(stacks[s], 1)
    BY <1>1, <1>2, <1>4, StatusLife
  <2>3. ASSUME IsComplete(stacks[s]) PROVE ForGood(stacks[s])
    <3>1. stacks[s].certs = CertificateARNs(Current)
      BY <1>1, <1>2, <1>4, <2>1, <2>3, StatusLife
    <3>2. PICK c \in DOMAIN Current.ingresses : id \in Current.ingresses[c]
      BY DEF Members
    <3>3. c \in Needed(Current)
      BY <3>2 DEF Needed
    <3> QED
      BY <3>1, <3>3 DEF ForGood, CertificateARNs
  <2>4. ASSUME IsComplete(stacks[s]), elb[s] = "active", young[s] = 0
        PROVE  hostname[id] = s
    BY <1>2, <2>1, <2>4 DEF ToPublish
  <2> QED
    BY <2>1, <2>2, <2>3, <2>4 DEF AtHome
<1> QED
  BY <1>3, <1>4

LEMMA AllAtHome ==
  ASSUME TypeInv, NEW known, Covered(known), CertificatesInv(known), PlacedInv,
         UpToDate, NothingLeft, pc = "apply", at > Len(model), NEW id \in DOMAIN kube
  PROVE  AtHome(id)
<1>1. /\ DOMAIN listed = DOMAIN kube /\ available = certs
      /\ listed[id].hosts = kube[id].hosts /\ listed[id].pinned = kube[id].pinned
  BY DEF UpToDate, Working
<1>2. kube[id] \in Resources /\ certs \in SUBSET Cert /\ known \subseteq certs
  BY DEF TypeInv, UserType, PartialFunction, CertificatesInv
<1>3. todo = {} /\ PlacedOnce
  BY DEF TypeInv, CycleType, StageInv, PlacedInv, Loaded
<1>4. Keys(id) # {}
  <2>1. CASE ClusterLocal(listed[id])
    BY <2>1 DEF Keys
  <2>2. CASE ~ClusterLocal(listed[id])
    <3>1. ~ClusterLocal(kube[id])
      BY <1>1, <2>2 DEF ClusterLocal
    <3>2. CertificatesFor(kube[id], certs) # {}
      BY <1>2, <3>1 DEF Covered
    <3>3. CertificatesFor(listed[id], available) = CertificatesFor(kube[id], certs)
      BY <1>1 DEF CertificatesFor
    <3> QED
      BY <2>2, <3>2, <3>3 DEF Keys, Wanted
  <2> QED
    BY <2>1, <2>2
<1>5. PICK i \in DOMAIN model : ServedBy(id) = {i}
  BY <1>1, <1>3, <1>4 DEF PlacedOnce
<1>6. id \in Members(model[i])
  BY <1>5 DEF ServedBy
<1>7. i < at
  BY DEF TypeInv, CycleType, StageInv, TypeOK, IsSequence
<1> QED
  BY <1>6, <1>7 DEF NothingLeft

LEMMA UpToDateQuietly ==
  ASSUME Patient, TypeInv, KeptInv, UpToDate, Quietly, pc # "sleep"
  PROVE  UpToDate'
<1>1. rgSupport' /\ rgSupport
  <2>1. [SystemNext]_vars
    BY DEF Quietly, SystemNext, PollStep
  <2> QED
    BY <2>1, KnownWithHostname DEF KeptInv
<1>2. view \in [hostname : [Ident -> StackName \cup {None}],
                active : SUBSET StackName, alarms : Alarms \cup {None}]
  BY DEF TypeInv, CycleType
<1>3. CASE ListResources
  <2>1. DOMAIN kube \subseteq Ident /\ rgSupport'
    BY <1>1 DEF TypeInv, UserType, PartialFunction
  <2>2. /\ listed' = [id \in DOMAIN kube |-> kube[id]]
        /\ view' = [view EXCEPT !.hostname = hostname]
        /\ pc' = "stacks" /\ UNCHANGED <<kube, hostname>>
    BY <1>3, <2>1 DEF ListResources, kubeVars
  <2> QED
    BY <1>2, <2>2 DEF UpToDate, Working
<1>4. CASE GetStackLBStates
  <2>1. /\ view' = [view EXCEPT !.active = {s \in DOMAIN snap : elb[s] = "active"}]
        /\ pc = "elbs" /\ pc' = "certs"
        /\ UNCHANGED <<kube, hostname, listed, snap, stacks, elb>>
    BY <1>4 DEF GetStackLBStates, kubeVars, cloudVars, matchVars
  <2> QED
    BY <1>2, <2>1 DEF UpToDate, Working
<1>5. CASE GetCertificates /\ certs # {}
  BY <1>5 DEF GetCertificates, kubeVars, cloudVars, UpToDate, Working
<1>6. CASE GetCloudWatchAlarms
  <2>1. /\ view' = [view EXCEPT !.alarms = alarms]
        /\ pc = "alarms" /\ pc' = "build"
        /\ UNCHANGED <<kube, hostname, listed, snap, stacks, elb, available, certs>>
    BY <1>6 DEF GetCloudWatchAlarms, kubeVars, cloudVars, matchVars
  <2> QED
    BY <1>2, <2>1 DEF UpToDate, Working
<1>7. CASE BuildModel
  <2>1. /\ listed' = [id \in DOMAIN listed |-> AttachGlobalACL(listed[id])]
        /\ pc = "build" /\ pc' = "match"
        /\ UNCHANGED <<kube, hostname, snap, stacks, elb, available, certs, view>>
    BY <1>7 DEF BuildModel, kubeVars, cloudVars
  <2>2. PartialFunction(listed, Ident, Resource)
    BY DEF TypeInv, CycleType, TypeOK
  <2>3. \A r \in Resource : /\ AttachGlobalACL(r).hosts = r.hosts
                            /\ AttachGlobalACL(r).pinned = r.pinned
    BY DEF AttachGlobalACL, Resource
  <2>4. \A id \in DOMAIN listed : /\ listed'[id].hosts = listed[id].hosts
                                  /\ listed'[id].pinned = listed[id].pinned
    BY <2>1, <2>2, <2>3 DEF PartialFunction
  <2> QED
    BY <2>1, <2>4 DEF UpToDate, Working
<1>8. CASE MatchResource \/ StartApplying
  <2>1. /\ pc = "match" /\ pc' \in {"match", "apply"}
        /\ UNCHANGED <<kube, hostname, listed, snap, stacks, elb, available, certs, view>>
    BY <1>8 DEF MatchResource, StartApplying, Place, PlaceClusterLocal,
                SkipWithoutCertificate, PlaceOnFirstFit, PlaceOnNew, inputVars,
                matchVars, kubeVars, cloudVars
  <2> QED
    BY <2>1 DEF UpToDate, Working
<1>9. ~Wake
  BY DEF Wake
<1> QED
  BY <1>3, <1>4, <1>5, <1>6, <1>7, <1>8, <1>9 DEF Quietly

LEMMA IdleStep ==
  ASSUME Patient, TypeInv, NEW known, known # {}, Covered(known),
         CertificatesInv(known), LifeInv, PlacedInv, KeptInv, IdleInv,
         [SystemNext]_vars
  PROVE  IdleInv'
<1>1. SUFFICES ASSUME idle' PROVE UpToDate' /\ NothingLeft'
  BY DEF IdleInv
<1>2. ~UserStep /\ ~Tick
  BY <1>1, UserSteps DEF Tick
<1>3. ASSUME NEW s \in StackName, CloudProgress(s) \/ CloudFailure(s)
      PROVE  FALSE
  BY <1>1, <1>3
  DEF CloudProgress, CloudFailure, CreateCompletes, UpdateCompletes, DeleteCompletes,
      LoadBalancerActive, CreateFails, UpdateRollsBack, DeleteFails, Progress,
      Environment
<1>4. ASSUME NEW id \in Ident, UpdateIngressLoadBalancer(id) \/ PatchFails(id)
      PROVE  FALSE
  BY <1>1, <1>4, PublishingSteps
<1>5. CASE UNCHANGED vars
  <2>1. UNCHANGED <<pc, idle, listed, kube, view, hostname, snap, stacks, elb, young,
                    available, certs, model, at>>
    BY <1>5 DEF vars, kubeVars, cloudVars, cycleVars, matchVars
  <2>2. \A id : AtHome(id)' <=> AtHome(id)
    BY <2>1, HomeStill
  <2> QED
    BY <1>1, <2>1, <2>2 DEF IdleInv, UpToDate, NothingLeft
<1>6. CASE Ends
  <2>1. certs # {} /\ ~CycleFails /\ ~Restart
    BY <1>1 DEF CertificatesInv, CycleFails, Restart
  <2>2. /\ FinishCycle /\ pc = "apply" /\ at > Len(model) /\ idle
        /\ pc' = "sleep" /\ UNCHANGED <<kube, stacks, elb, young, hostname>>
    BY <1>1, <1>6, <2>1 DEF Ends, FinishCycle, EndCycle, kubeVars, cloudVars
  <2>3. \A id \in DOMAIN kube : AtHome(id)'
    BY <2>2, AllAtHome, HomeStill DEF IdleInv
  <2> QED
    BY <2>2, <2>3 DEF UpToDate, NothingLeft, Working
<1>7. CASE Wake
  BY <1>7 DEF Wake, UpToDate, NothingLeft, Working
<1>8. CASE Quietly /\ ~Wake
  <2>1. idle /\ pc # "sleep" /\ pc' # "sleep" /\ pc' # "publish"
    BY <1>1, <1>8 DEF Quietly, ListResources, GetStackLBStates, GetCertificates,
       GetCloudWatchAlarms, BuildModel, MatchResource, StartApplying
  <2>2. pc' = "apply" => at' = 1 /\ DOMAIN model' \subseteq Nat \ {0}
    <3>1. pc' = "apply" => StartApplying
      BY <1>8, QuietSteps DEF Quietly, Wake, ListResources, GetStackLBStates, GetCertificates,
         GetCloudWatchAlarms, BuildModel, MatchResource, StartApplying
    <3>2. IsSequence(model')
      BY <1>8, QuietSteps DEF TypeInv, CycleType, TypeOK
    <3> QED
      BY <3>1, <3>2 DEF StartApplying, IsSequence
  <2>3. NothingLeft'
    BY <2>1, <2>2 DEF NothingLeft
  <2> QED
    BY <1>8, <2>1, <2>3, UpToDateQuietly DEF IdleInv
<1>9. CASE FindManagedStacks
  BY <1>1, <1>9 DEF FindManagedStacks, kubeVars, cloudVars, IdleInv, UpToDate,
                    NothingLeft, Working
<1>10. CASE Applies
  <2>1. /\ pc = "apply" /\ at <= Len(model) /\ (NextLB \/ Publish) /\ idle
        /\ UNCHANGED <<kube, hostname, certs, snap, available, listed, model, view>>
    BY <1>1, <1>10, ApplyingSteps, UpdateStep
    DEF kubeVars, matchVars, Applies, CreateStack, DeleteStack, Ready,
        StackCallFails, QuotaExhausted
  <2>2. PICK status \in {"ready", "update"} :
          /\ StatusIs(status) /\ Publish /\ UNCHANGED <<stacks, elb, young>>
          /\ status = "update" =>
              (Current.stack \in DOMAIN stacks /\ IsComplete(stacks[Current.stack])
                 => stacks[Current.stack].certs = CertificateARNs(Current))
    <3>1. CASE Ready
      BY <3>1 DEF Ready, cloudVars
    <3>2. CASE UpdateStack
      BY <1>1, <3>2, UpdateStep DEF UpdateStack
    <3>3. ~CreateStack /\ ~DeleteStack /\ ~StackCallFails /\ ~QuotaExhausted
      BY <1>1 DEF CreateStack, DeleteStack, StackCallFails, QuotaExhausted
    <3> QED
      BY <1>10, <3>1, <3>2, <3>3 DEF Applies
  <2>3. UpToDate /\ NothingLeft
    BY <2>1 DEF IdleInv
  <2>4. \A id : AtHome(id)' <=> AtHome(id)
    BY <2>1, <2>2, HomeStill
  <2>5. \/ pc' = "publish" /\ at' = at
        \/ pc' = "apply" /\ at' = at + 1 /\ ToPublish = {}
    BY <2>2 DEF Publish, NextLB
  <2>6. UpToDate'
    BY <2>1, <2>2, <2>3, <2>5 DEF UpToDate, Working
  <2>7. NothingLeft'
    <3>1. ASSUME NEW i \in DOMAIN model, i < at', NEW id \in Members(model[i])
          PROVE  AtHome(id)
      <4>1. i < at \/ (i = at /\ ToPublish = {})
        <5>1. at \in Nat /\ i \in Nat
          BY <2>1 DEF TypeInv, CycleType, StageInv, TypeOK, IsSequence
        <5> QED
          BY <2>5, <3>1, <5>1
      <4>2. CASE i < at
        BY <2>1, <2>3, <3>1, <4>2 DEF NothingLeft
      <4>3. CASE i = at /\ ToPublish = {}
        BY <2>2, <2>3, <3>1, <4>3, CurrentAtHome DEF Current
      <4> QED
        BY <4>1, <4>2, <4>3
    <3> QED
      BY <2>1, <2>4, <2>5, <3>1 DEF NothingLeft
  <2> QED
    BY <2>6, <2>7
<1> QED
  BY <1>2, <1>3, <1>4, <1>5, <1>6, <1>7, <1>8, <1>9, <1>10, StepCases

-----------------------------------------------------------------------------
(* Nobody is on a stack that is still being created                        *)

Opened(s) == s \in DOMAIN stacks => stacks[s].status # "creating"

OpenedInv ==
  /\ \A id \in Ident : Opened(hostname[id])
  /\ pc = "publish" => Opened(Current.stack)

LEMMA OpenedAfterApply ==
  ASSUME TypeInv, Applies, NEW s, s \notin Unused, Opened(s)
  PROVE  Opened(s)'
<1>1. CASE CreateStack
  BY <1>1, CreateStep DEF Creates, Opened
<1>2. CASE UpdateStack
  <2>1. \A owner : UpdatedStack(owner).status = "updating"
    BY DEF UpdatedStack
  <2>2. ASSUME NEW owner, Updates(owner) PROVE Opened(s)'
    BY <2>1, <2>2 DEF Updates, Opened
  <2> QED
    BY <1>2, <2>2, UpdateStep DEF Opened
<1>3. CASE DeleteStack
  <2>1. s \in DOMAIN stacks /\ s = Current.stack =>
          stacks'[s] = [stacks[s] EXCEPT !.status = "deleting"] /\ IsStack(stacks[s])
    BY <1>3, DeleteStep DEF Deletes, TypeInv, CloudType, IsSnapshot
  <2>2. s \in DOMAIN stacks /\ s = Current.stack => stacks'[s].status = "deleting"
    BY <2>1, ChangedStatus DEF Status
  <2> QED
    BY <1>3, <2>2, DeleteStep DEF Deletes, Opened
<1>4. CASE Ready \/ StackCallFails \/ QuotaExhausted
  BY <1>4 DEF Ready, StackCallFails, QuotaExhausted, cloudVars, Opened
<1> QED
  BY <1>1, <1>2, <1>3, <1>4 DEF Applies

LEMMA OpenedStep ==
  ASSUME TypeInv, SnapInv, OpenedInv, [SystemNext]_vars
  PROVE  OpenedInv'
<1>1. Opened(None)
  BY ConstantsAssumption DEF TypeInv, CloudType, IsSnapshot, Opened
<1>2. ASSUME UserStep \/ UNCHANGED vars PROVE OpenedInv'
  <2>1. /\ UNCHANGED <<model, at, pc, stacks>>
        /\ \A id \in Ident : hostname'[id] \in {hostname[id], None}
    BY <1>2, UserSteps DEF vars, kubeVars, cloudVars, cycleVars, matchVars
  <2>2. \A s : Opened(s)' <=> Opened(s)
    BY <2>1 DEF Opened
  <2> QED
    BY <1>1, <2>1, <2>2 DEF OpenedInv, Current
<1>3. ASSUME NEW x \in StackName, CloudProgress(x) \/ CloudFailure(x)
      PROVE  OpenedInv'
  <2>1. CloudMoves /\ UNCHANGED <<model, at, pc, hostname>>
    BY <1>3, CloudSteps DEF TypeInv, cycleVars, matchVars, kubeVars
  <2>2. \A s : Opened(s) => Opened(s)'
    BY <2>1 DEF CloudMoves, Opened
  <2> QED
    BY <2>1, <2>2 DEF OpenedInv, Current
<1>4. ASSUME Tick PROVE OpenedInv'
  <2>1. /\ UNCHANGED <<at, pc, hostname>> /\ DOMAIN stacks' = DOMAIN stacks
        /\ \A s \in DOMAIN stacks : stacks'[s].status = stacks[s].status
    BY <1>4, AgedSnapshot DEF Tick, kubeVars, TypeInv, CloudType
  <2>2. \A s : Opened(s) => Opened(s)'
    BY <2>1 DEF Opened
  <2>3. pc = "publish" => Current'.stack = Current.stack
    BY <1>4, <2>1, TickStep DEF Current, TypeInv, CycleType, StageInv
  <2> QED
    BY <2>1, <2>2, <2>3 DEF OpenedInv
<1>5. ASSUME Ends \/ Quietly \/ FindManagedStacks PROVE OpenedInv'
  <2>1. pc' # "publish" /\ UNCHANGED <<stacks, hostname>>
    BY <1>5, EndingSteps, QuietSteps DEF FindManagedStacks, kubeVars, cloudVars
  <2> QED
    BY <2>1 DEF OpenedInv, Opened
<1>6. ASSUME Applies PROVE OpenedInv'
  <2>1. /\ pc = "apply" /\ at <= Len(model) /\ (NextLB \/ Publish)
        /\ UNCHANGED <<model, hostname>>
    BY <1>6, ApplyingSteps DEF matchVars, kubeVars
  <2>2. ASSUME NEW id \in Ident PROVE Opened(hostname[id])'
    <3>1. \A s : s = hostname[id] => Opened(s) /\ s \notin Unused
      BY DEF OpenedInv, Unused
    <3>2. \A s : s = hostname[id] => Opened(s)'
      BY <1>6, <3>1, OpenedAfterApply
    <3> QED
      BY <2>1, <3>2
  <2>3. ASSUME pc' = "publish" PROVE Opened(Current.stack)'
    <3>1. ToPublish # {} /\ Current' = Current
      BY <2>1, <2>3 DEF NextLB, Publish, Current
    <3>2. Current.stack = None \/ Current.stack \in DOMAIN snap
      BY <2>1, CurrentFacts DEF FromSnap
    <3>3. Current.stack \in DOMAIN snap \/ Current.stack \notin Unused
      BY <3>2, ConstantsAssumption DEF Unused
    <3>4. Opened(Current.stack)
      <4>1. CASE Current.clusterLocal
        BY <1>1, <2>1, <4>1, CurrentFacts DEF LBInv, SharingKept
      <4>2. CASE ~Current.clusterLocal
        <5>1. Current.stack # None /\ IsComplete(snap[Current.stack])
          BY <3>1, <4>2 DEF ToPublish
        <5>2. Pending(Current.stack) /\ Current.stack \in DOMAIN snap
          BY <2>1, <3>2, <5>1, CurrentPending
        <5> QED
          BY <5>1, <5>2 DEF SnapInv, Opened, IsComplete
      <4> QED
        BY <4>1, <4>2
    <3>5. \A s : s = Current.stack => Opened(s)'
      BY <1>6, <3>3, <3>4, OpenedAfterApply DEF Unused
    <3> QED
      BY <3>1, <3>5
  <2> QED
    BY <2>2, <2>3 DEF OpenedInv
<1>7. ASSUME NEW id \in Ident, UpdateIngressLoadBalancer(id) \/ PatchFails(id)
      PROVE  OpenedInv'
  <2>1. /\ Dequeue(id) /\ UNCHANGED <<model, stacks>>
        /\ \A x \in Ident :
             hostname'[x] = hostname[x] \/ (x = id /\ hostname'[x] = Current.stack)
    BY <1>7, PublishingSteps DEF cloudVars, matchVars
  <2>2. \A s : Opened(s)' <=> Opened(s)
    BY <2>1 DEF Opened
  <2>3. /\ pc = "publish"
        /\ pc' = "publish" => Current' = Current
    BY <2>1 DEF Dequeue, Current
  <2>4. \A x \in Ident : Opened(hostname'[x])
    BY <2>1, <2>3 DEF OpenedInv
  <2> QED
    BY <2>2, <2>3, <2>4 DEF OpenedInv
<1> QED
  BY <1>2, <1>3, <1>4, <1>5, <1>6, <1>7, StepCases

-----------------------------------------------------------------------------
(* Published resources are served                                          *)

(* Whoever takes down a stack knows of nobody who is on it: the controller *)
(* has read that its certificates have run out, and CloudFormation gives   *)
(* up only a stack that it has not created yet.                            *)
LEMMA NobodyLeftDown ==
  ASSUME Patient, TypeInv, NEW known, CertificatesInv(known), KeptInv, OpenedInv,
         [SystemNext]_vars, NEW s \in StackName, DownFor(s), NEW id \in DOMAIN kube
  PROVE  hostname[id] # s
<1>1. /\ s \in DOMAIN stacks /\ stacks[s].status # "deleting"
      /\ pc = "apply" /\ stacks'[s].status = "deleting" /\ id \in Ident
  BY DEF DownFor, TypeInv, UserType, PartialFunction
<1>2. CASE Applies
  <2>1. DeleteStack /\ s = Current.stack
    <3>1. CASE CreateStack
      BY <1>1, <3>1, CreateStep DEF Creates
    <3>2. CASE UpdateStack
      <4>1. \A owner : UpdatedStack(owner).status = "updating"
        BY DEF UpdatedStack
      <4>2. ASSUME NEW owner, Updates(owner) PROVE FALSE
        BY <1>1, <4>1, <4>2 DEF Updates
      <4> QED
        BY <1>1, <3>2, <4>2, UpdateStep
    <3>3. CASE DeleteStack
      BY <1>1, <3>3, DeleteStep DEF Deletes
    <3>4. CASE Ready \/ StackCallFails \/ QuotaExhausted
      BY <1>1, <3>4 DEF Ready, StackCallFails, QuotaExhausted, cloudVars
    <3> QED
      BY <1>2, <3>1, <3>2, <3>3, <3>4 DEF Applies
  <2>2. StatusIs("delete") /\ ~Current.clusterLocal /\ s # None /\ at <= Len(model)
    BY <2>1, StatusFacts DEF DeleteStack
  <2>3. Pending(s) /\ ~Lasts(snap[s], 1)
    BY <1>1, <2>1, <2>2, CurrentPending, StatusLife
  <2> QED
    BY <1>1, <2>3 DEF KeptInv
<1>3. ASSUME NEW x \in StackName, CloudProgress(x) \/ CloudFailure(x)
      PROVE  hostname[id] # s
  <2>1. CASE CreateFails(x)
    <3>1. Progress(x, "creating", "deleting")
      BY <2>1 DEF CreateFails
    <3>2. /\ stacks[x].status = "creating"
          /\ \A t \in DOMAIN stacks \ {x} : stacks'[t] = stacks[t]
      BY <3>1, ProgressFacts DEF Status, TypeInv
    <3> QED
      BY <1>1, <3>2 DEF OpenedInv, Opened
  <2>2. ~CreateCompletes(x) /\ ~UpdateCompletes(x) /\ ~DeleteFails(x)
    <3>1. ASSUME NEW from \in Status, NEW to \in Status, Progress(x, from, to),
                 from # "complete", to \notin {"deleting", "updating"}
          PROVE  FALSE
      BY <1>1, <3>1, ProgressFacts DEF TypeInv
    <3> QED
      BY <3>1 DEF CreateCompletes, UpdateCompletes, DeleteFails, Status
  <2>3. ~UpdateRollsBack(x)
    BY <1>1 DEF UpdateRollsBack, TypeInv, CloudType, IsComplete
  <2>4. ~DeleteCompletes(x) /\ ~LoadBalancerActive(x)
    BY <1>1 DEF DeleteCompletes, LoadBalancerActive
  <2> QED
    BY <1>3, <2>1, <2>2, <2>3, <2>4 DEF CloudProgress, CloudFailure
<1>4. stacks' # stacks
  BY <1>1
<1>5. ~UserStep /\ ~Ends /\ ~Quietly /\ ~(UNCHANGED vars)
  BY <1>4, UserSteps, EndingSteps, QuietSteps DEF cloudVars, vars
<1>6. ~Tick /\ ~FindManagedStacks
  BY <1>1, QuietTick DEF FindManagedStacks
<1>7. ASSUME NEW x \in Ident, UpdateIngressLoadBalancer(x) \/ PatchFails(x)
      PROVE  FALSE
  BY <1>1, <1>7, PublishingSteps DEF Dequeue
<1> QED
  BY <1>2, <1>3, <1>5, <1>6, <1>7, StepCases

ServingInv(known) ==
  /\ CertificatesInv(known) /\ LifeInv /\ PlacedInv /\ KeptInv /\ IdleInv /\ OpenedInv

LEMMA ServingInit ==
  ASSUME NEW known, SystemInit, known \subseteq certs
  PROVE  ServingInv(known)
<1>1. /\ stacks = EmptyMap /\ previous = EmptyMap /\ snap = EmptyMap
      /\ DOMAIN stacks = {} /\ DOMAIN previous = {} /\ DOMAIN snap = {}
      /\ hostname = [id \in Ident |-> None] /\ available = {} /\ DOMAIN model = {}
      /\ pc = "sleep" /\ rgSupport = TRUE /\ idle = FALSE
  BY EmptyCycle DEF SystemInit, Installed, EmptyMap
<1>2. CertificatesInv(known)
  BY <1>1 DEF CertificatesInv, Working
<1>3. LifeInv /\ PlacedInv /\ IdleInv
  BY <1>1 DEF LifeInv, PlacedInv, IdleInv, Loaded
<1>4. KeptInv /\ OpenedInv
  BY <1>1 DEF KeptInv, OpenedInv, Kept, Opened, Pending
<1> QED
  BY <1>2, <1>3, <1>4 DEF ServingInv

LEMMA ServingStep ==
  ASSUME Patient, NEW known, known # {}, Covered(known), TypeInv, SnapInv,
         ServingInv(known), [SystemNext]_vars
  PROVE  ServingInv(known)'
<1>1. ASSUME Tick, NEW id \in DOMAIN kube PROVE AtHome(id)
  BY <1>1, QuietTick DEF ServingInv, IdleInv, NothingLeft
<1>2. CertificatesInv(known)' /\ LifeInv' /\ PlacedInv'
  BY CertificatesStep, LifeStep, PlacedStep DEF ServingInv
<1>3. KeptInv' /\ IdleInv' /\ OpenedInv'
  BY <1>1, KeptStep, IdleStep, OpenedStep DEF ServingInv
<1> QED
  BY <1>2, <1>3 DEF ServingInv

(* No load balancer is taken down while any resource is published on it,   *)
(* and the certificates in use on it are kept until then:                  *)
(* provided that there is a certificate for every resource and stays so,   *)
(* that an unused one is kept for longer than all other load balancers may *)
(* take to become old enough, and that the failures that StillServed does  *)
(* not survive are ruled out (see Patient).                                *)
THEOREM PublishedServed ==
  ASSUME Patient, NEW known, known # {}, Covered(known)
  PROVE  SystemSpec /\ known \subseteq certs => StillServed
<1>1. TypeInv /\ ServingInv(known) /\ [SystemNext]_vars =>
        [\A s \in StackName : DownFor(s) =>
           \A id \in DOMAIN kube : hostname[id] # s]_vars
  BY NobodyLeftDown DEF ServingInv
<1>2. SystemInit /\ known \subseteq certs => ServingInv(known)
  BY ServingInit
<1>3. TypeInv /\ SnapInv /\ ServingInv(known) /\ [SystemNext]_vars => ServingInv(known)'
  BY ServingStep
<1> QED
  BY <1>1, <1>2, <1>3, SnapshotKept, PTL DEF SystemSpec, StillServed
=============================================================================
