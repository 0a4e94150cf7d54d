--------------------------- MODULE MatchingProofs ---------------------------
(***************************************************************************)
(* Proofs about Matching.  The lemmas say what the operators of            *)
(* LoadBalancer do to one load balancer; the theorems follow by showing    *)
(* that each of the four actions preserves the inductive invariant.        *)
(***************************************************************************)
EXTENDS Matching, FiniteSetTheorems, SequenceTheorems, TLAPS

Key == Cert \cup {ClusterLocalDomain}

SameSettings(new, lb) ==
  /\ new.stack = lb.stack /\ new.owner = lb.owner
  /\ new.clusterLocal = lb.clusterLocal /\ new.existing = lb.existing
  /\ new.class = lb.class /\ new.sg = lb.sg /\ new.waf = lb.waf

(* Resource id has joined the load balancer under the keys. *)
Joined(new, lb, id, keys) ==
  /\ DOMAIN new.ingresses = DOMAIN lb.ingresses \cup keys
  /\ \A k \in DOMAIN new.ingresses : \A x :
       x \in new.ingresses[k] <=>
         \/ k \in DOMAIN lb.ingresses /\ x \in lb.ingresses[k]
         \/ k \in keys /\ x = id

(* A resource asks for known certificates only. *)
LEMMA CertificatesForType ==
  ASSUME NEW r \in Resource, NEW certs \in SUBSET Cert
  PROVE  CertificatesFor(r, certs) \in SUBSET Cert
BY ConstantsAssumption DEF CertificatesFor, Resource

(* AddTo adds the resource under the keys and changes nothing else. *)
LEMMA AddToFacts ==
  ASSUME NEW lb, IsLB(lb), NEW id \in Ident, NEW keys \in SUBSET Key,
         NEW new, new = AddTo(lb, id, keys)
  PROVE  /\ IsLB(new)
         /\ Joined(new, lb, id, keys)
         /\ SameSettings(new, lb)
         /\ new.shared = lb.shared /\ new.ssl = lb.ssl
<1> DEFINE ing == [k \in DOMAIN lb.ingresses \cup keys |->
        (IF k \in DOMAIN lb.ingresses THEN lb.ingresses[k] ELSE {})
        \cup (IF k \in keys THEN {id} ELSE {})]
<1>1. new = [lb EXCEPT !.ingresses = ing]
  BY DEF AddTo
<1>2. \A k \in DOMAIN lb.ingresses : lb.ingresses[k] \in SUBSET Ident
  BY DEF IsLB
<1>3. ing \in [DOMAIN ing -> SUBSET Ident] /\ DOMAIN ing \subseteq Key
  BY <1>2 DEF IsLB, Key
<1>4. \A k \in DOMAIN ing : \A x :
        x \in ing[k] <=>
          \/ k \in DOMAIN lb.ingresses /\ x \in lb.ingresses[k]
          \/ k \in keys /\ x = id
  OBVIOUS
<1>5. DOMAIN ing = DOMAIN lb.ingresses \cup keys
  OBVIOUS
<1> HIDE DEF ing
<1>6. new.ingresses = ing /\ SameSettings(new, lb)
      /\ new.shared = lb.shared /\ new.ssl = lb.ssl
  BY <1>1 DEF IsLB, SameSettings
<1>7. IsLB(new)
  BY <1>1, <1>3 DEF IsLB, Key
<1>8. Joined(new, lb, id, keys)
  BY <1>4, <1>5, <1>6 DEF Joined
<1> QED
  BY <1>6, <1>7, <1>8

(* addIngress also leaves the sharing and the policy of the resource. *)
LEMMA AddIngressFacts ==
  ASSUME NEW lb, IsLB(lb), NEW id \in Ident, NEW r \in Resource,
         NEW keys \in SUBSET Key, NEW new, new = AddIngress(lb, id, r, keys)
  PROVE  /\ IsLB(new)
         /\ Joined(new, lb, id, keys)
         /\ SameSettings(new, lb)
         /\ new.shared = r.shared /\ new.ssl = r.ssl
<1> DEFINE mid == AddTo(lb, id, keys)
<1>1. /\ IsLB(mid) /\ Joined(mid, lb, id, keys) /\ SameSettings(mid, lb)
  BY AddToFacts
<1>2. new = [mid EXCEPT !.shared = r.shared, !.ssl = r.ssl]
  BY DEF AddIngress
<1> HIDE DEF mid
<1>3. new.ingresses = mid.ingresses /\ SameSettings(new, mid)
      /\ new.shared = r.shared /\ new.ssl = r.ssl
  BY <1>1, <1>2 DEF IsLB, SameSettings
<1>4. IsLB(new)
  BY <1>1, <1>2 DEF IsLB, Resource
<1> QED
  BY <1>1, <1>3, <1>4 DEF Joined, SameSettings

(* A new load balancer serves the resource it was made for, under every    *)
(* certificate it asks for.                                                *)
LEMMA NewLBFacts ==
  ASSUME NEW id \in Ident, NEW r \in Resource, NEW certs \in SUBSET Cert,
         NEW new, new = NewLB(id, r, certs)
  PROVE  /\ IsLB(new)
         /\ DOMAIN new.ingresses = certs
         /\ \A c \in certs : new.ingresses[c] = {id}
         /\ new.stack = None /\ new.owner = None /\ ~new.clusterLocal
         /\ new.shared = r.shared /\ new.class = r.class
         /\ new.sg = r.sg /\ new.waf = r.waf /\ new.ssl = r.ssl
<1>1. new.existing = EmptyMap /\ DOMAIN new.existing = {}
      /\ new.existing \in [{} -> Expiry]
  BY DEF NewLB, EmptyMap
<1>2. new.ingresses = [c \in certs |-> {id}]
  BY DEF NewLB
<1>3. r.class \in Class
  BY ConstantsAssumption DEF Resource
<1> QED
  BY <1>1, <1>2, <1>3 DEF NewLB, IsLB, Resource
(* A load balancer made from a stack serves nothing yet. *)
LEMMA FromStackFacts ==
  ASSUME NEW s \in StackName, NEW stack, IsStack(stack),
         NEW certs \in SUBSET Cert, NEW lb, lb = FromStack(s, stack, certs)
  PROVE  /\ IsLB(lb)
         /\ DOMAIN lb.ingresses \subseteq Cert
         /\ DOMAIN lb.ingresses = DOMAIN lb.existing
         /\ \A c \in DOMAIN lb.ingresses : lb.ingresses[c] = {}
         /\ lb.stack = s /\ lb.owner = stack.owner /\ ~lb.clusterLocal
         /\ lb.shared <=> lb.owner = None
<1> DEFINE D == DOMAIN stack.certs \cap certs
           ing == [c \in D |-> {}]
           ex  == [c \in D |-> stack.certs[c]]
<1>1. /\ ing \in [D -> SUBSET Ident] /\ DOMAIN ing = D
      /\ \A c \in D : ing[c] = {}
  OBVIOUS
<1>2. ex \in [D -> Expiry] /\ DOMAIN ex = D /\ D \subseteq Cert
  BY DEF IsStack
<1>3. /\ lb.ingresses = ing /\ lb.existing = ex /\ lb.stack = s
      /\ lb.owner = stack.owner /\ ~lb.clusterLocal
      /\ lb.shared <=> lb.owner = None
  BY DEF FromStack
<1>4. IsLB(lb)
  <2> HIDE DEF ing, ex, D
  <2>1. lb = [stack |-> s, owner |-> stack.owner, clusterLocal |-> FALSE,
              ingresses |-> ing, existing |-> ex,
              shared |-> stack.owner = None, class |-> stack.class,
              sg |-> stack.sg, waf |-> stack.waf, ssl |-> stack.ssl]
    BY DEF FromStack, ing, ex, D
  <2> QED
    BY <2>1, <1>1, <1>2 DEF IsLB, IsStack
<1> QED
  BY <1>1, <1>2, <1>3, <1>4

(* The load balancer of cluster-local resources serves nothing yet. *)
LEMMA ClusterLocalLBFacts ==
  /\ IsLB(ClusterLocalLB)
  /\ DOMAIN ClusterLocalLB.ingresses = {}
  /\ ClusterLocalLB.stack = None /\ ClusterLocalLB.owner = None
  /\ ClusterLocalLB.clusterLocal /\ ClusterLocalLB.class = None
<1>1. /\ EmptyMap \in [{} -> SUBSET Ident] /\ EmptyMap \in [{} -> Expiry]
      /\ DOMAIN EmptyMap = {}
  BY DEF EmptyMap
<1> QED
  BY <1>1 DEF ClusterLocalLB, IsLB

-----------------------------------------------------------------------------
(* The steps *)

(* Load balancer i takes resource id; the others stay as they are. *)
Grows(i, id, keys) ==
  /\ i \in DOMAIN model /\ DOMAIN model' = DOMAIN model
  /\ IsSequence(model')
  /\ \A j \in DOMAIN model \ {i} : model'[j] = model[j]
  /\ IsLB(model'[i])
  /\ Joined(model'[i], model[i], id, keys)
  /\ SameSettings(model'[i], model[i])

LEMMA UpdateOfSequence ==
  ASSUME NEW s, IsSequence(s), NEW i \in DOMAIN s, NEW v,
         NEW t, t = [s EXCEPT ![i] = v]
  PROVE  /\ IsSequence(t) /\ DOMAIN t = DOMAIN s
         /\ t[i] = v /\ \A j \in DOMAIN s \ {i} : t[j] = s[j]
<1>1. Len(s) \in Nat /\ DOMAIN s = 1 .. Len(s)
  BY DEF IsSequence
<1>2. /\ DOMAIN t = DOMAIN s /\ t[i] = v
      /\ \A j \in DOMAIN s \ {i} : t[j] = s[j]
  BY <1>1
<1> DEFINE S == {t[k] : k \in DOMAIN t}
<1>3. t \in [1 .. Len(s) -> S]
  BY <1>1, <1>2
<1> HIDE DEF S
<1>4. Seq(S) = UNION {[1 .. n -> S] : n \in Nat}
  BY SeqDef
<1>5. t \in Seq(S)
  BY <1>1, <1>3, <1>4, Zenon
<1> QED
  BY <1>2, <1>5 DEF IsSequence, S

LEMMA AppendToSequence ==
  \A s, v : IsSequence(s) =>
     /\ IsSequence(Append(s, v))
     /\ Len(s) \in Nat /\ DOMAIN s = 1 .. Len(s)
     /\ DOMAIN Append(s, v) = 1 .. Len(s) + 1
     /\ Append(s, v)[Len(s) + 1] = v
     /\ \A j \in DOMAIN s : Append(s, v)[j] = s[j]
BY DEF IsSequence

LEMMA StepOfClusterLocal ==
  ASSUME TypeOK, NEW id, PlaceClusterLocal(id)
  PROVE  \E i \in DOMAIN model :
           /\ model[i].clusterLocal
           /\ Grows(i, id, {ClusterLocalDomain})
<1>1. id \in Ident
  BY DEF PlaceClusterLocal, Turn, TypeOK, PartialFunction
<1>2. PICK i \in DOMAIN model :
        /\ model[i].clusterLocal
        /\ model' = [model EXCEPT ![i] = AddTo(model[i], id, {ClusterLocalDomain})]
  BY DEF PlaceClusterLocal
<1>3. IsLB(model[i]) /\ IsSequence(model)
  BY DEF TypeOK
<1> DEFINE new == AddTo(model[i], id, {ClusterLocalDomain})
<1>4. model' = [model EXCEPT ![i] = new]
  BY <1>2
<1> HIDE DEF new
<1>5. /\ IsSequence(model')
      /\ DOMAIN model' = DOMAIN model /\ model'[i] = new
      /\ \A j \in DOMAIN model \ {i} : model'[j] = model[j]
  BY <1>3, <1>4, UpdateOfSequence
<1>6. /\ IsLB(model'[i])
      /\ Joined(model'[i], model[i], id, {ClusterLocalDomain})
      /\ SameSettings(model'[i], model[i])
  BY <1>1, <1>3, <1>5, AddToFacts DEF Key, new
<1> QED
  BY <1>2, <1>5, <1>6 DEF Grows

LEMMA StepOfFirstFit ==
  ASSUME TypeOK, NEW id, PlaceOnFirstFit(id)
  PROVE  /\ Wanted(id) \in (SUBSET Cert) \ {{}}
         /\ \E i \in Fits(id) :
              /\ Grows(i, id, Wanted(id))
              /\ model'[i].shared = listed[id].shared
              /\ model'[i].ssl = listed[id].ssl
<1>1. id \in Ident /\ listed[id] \in Resource
  BY DEF PlaceOnFirstFit, Turn, TypeOK, PartialFunction
<1>2. Wanted(id) \in (SUBSET Cert) \ {{}}
  BY <1>1, CertificatesForType DEF PlaceOnFirstFit, Wanted, TypeOK
<1>3. PICK i \in Fits(id) :
        model' = [model EXCEPT ![i] =
                    AddIngress(model[i], id, listed[id], Wanted(id))]
  BY DEF PlaceOnFirstFit
<1>4. i \in DOMAIN model /\ IsLB(model[i]) /\ IsSequence(model)
  BY DEF Fits, TypeOK
<1> DEFINE new == AddIngress(model[i], id, listed[id], Wanted(id))
<1>5. model' = [model EXCEPT ![i] = new]
  BY <1>3
<1> HIDE DEF new
<1>6. /\ IsSequence(model')
      /\ DOMAIN model' = DOMAIN model /\ model'[i] = new
      /\ \A j \in DOMAIN model \ {i} : model'[j] = model[j]
  BY <1>4, <1>5, UpdateOfSequence
<1>7. /\ IsLB(model'[i])
      /\ Joined(model'[i], model[i], id, Wanted(id))
      /\ SameSettings(model'[i], model[i])
      /\ model'[i].shared = listed[id].shared
      /\ model'[i].ssl = listed[id].ssl
  BY <1>1, <1>2, <1>4, <1>6, AddIngressFacts DEF Key, new
<1> QED
  BY <1>2, <1>4, <1>6, <1>7 DEF Grows

(* A load balancer for resource id is added behind the others. *)
Extends(id) ==
  LET n == Len(model) + 1 IN
  /\ Len(model) \in Nat /\ DOMAIN model = 1 .. Len(model)
  /\ DOMAIN model' = 1 .. n
  /\ IsSequence(model')
  /\ \A j \in DOMAIN model : model'[j] = model[j]
  /\ IsLB(model'[n])
  /\ DOMAIN model'[n].ingresses = Wanted(id)
  /\ \A c \in Wanted(id) : model'[n].ingresses[c] = {id}
  /\ model'[n].stack = None /\ model'[n].owner = None
  /\ ~model'[n].clusterLocal
  /\ model'[n].shared = listed[id].shared /\ model'[n].class = listed[id].class
  /\ model'[n].sg = listed[id].sg /\ model'[n].waf = listed[id].waf
  /\ model'[n].ssl = listed[id].ssl

LEMMA StepOfNew ==
  ASSUME TypeOK, NEW id, PlaceOnNew(id)
  PROVE  Wanted(id) \in (SUBSET Cert) \ {{}} /\ Extends(id)
<1>1. id \in Ident /\ listed[id] \in Resource
  BY DEF PlaceOnNew, Turn, TypeOK, PartialFunction
<1>2. Wanted(id) \in (SUBSET Cert) \ {{}}
  BY <1>1, CertificatesForType DEF PlaceOnNew, Wanted, TypeOK
<1> DEFINE new == NewLB(id, listed[id], Wanted(id))
<1>3. model' = Append(model, new) /\ IsSequence(model)
  BY DEF PlaceOnNew, TypeOK
<1> HIDE DEF new
<1>4. /\ IsSequence(model')
      /\ Len(model) \in Nat /\ DOMAIN model = 1 .. Len(model)
      /\ DOMAIN model' = 1 .. Len(model) + 1
      /\ model'[Len(model) + 1] = new
      /\ \A j \in DOMAIN model : model'[j] = model[j]
  <2>1. /\ IsSequence(Append(model, new))
        /\ Len(model) \in Nat /\ DOMAIN model = 1 .. Len(model)
        /\ DOMAIN Append(model, new) = 1 .. Len(model) + 1
        /\ Append(model, new)[Len(model) + 1] = new
        /\ \A j \in DOMAIN model : Append(model, new)[j] = model[j]
    BY <1>3, AppendToSequence
  <2> QED
    BY <1>3, <2>1
<1>5. /\ IsLB(new)
      /\ DOMAIN new.ingresses = Wanted(id)
      /\ \A c \in Wanted(id) : new.ingresses[c] = {id}
      /\ new.stack = None /\ new.owner = None /\ ~new.clusterLocal
      /\ new.shared = listed[id].shared /\ new.class = listed[id].class
      /\ new.sg = listed[id].sg /\ new.waf = listed[id].waf
      /\ new.ssl = listed[id].ssl
  BY <1>1, <1>2, NewLBFacts DEF new
<1> QED
  BY <1>2, <1>4, <1>5 DEF Extends

-----------------------------------------------------------------------------
(* The model before the first resource is placed *)

(* A load balancer as getAllLoadBalancers and buildManagedModel make it.   *)
Fresh(lb) ==
  \/ lb = ClusterLocalLB
  \/ \E s \in DOMAIN snap :
       /\ s \in StackName /\ IsStack(snap[s])
       /\ lb = FromStack(s, snap[s], available)

LEMMA BuiltModel ==
  ASSUME IsSnapshot(snap), NEW order \in Orderings, NEW m, m = ModelOf(order)
  PROVE  /\ IsSequence(m)
         /\ \A i \in DOMAIN m : Fresh(m[i])
         /\ DOMAIN snap # {} => \E i \in DOMAIN m : m[i].stack # None
         /\ \A i, j \in DOMAIN m :
              m[i].stack # None /\ m[i].stack = m[j].stack => i = j
<1> DEFINE n == Cardinality(DOMAIN snap)
<1>1. DOMAIN snap \in SUBSET StackName /\ IsFiniteSet(DOMAIN snap)
  BY ConstantsAssumption, FS_Subset DEF IsSnapshot
<1>2. n \in Nat /\ (DOMAIN snap # {} => n # 0)
  BY <1>1, FS_CardinalityType, FS_EmptySet
<1>3. order \in [1 .. n -> DOMAIN snap]
  BY DEF Orderings
<1> HIDE DEF n
<1>4. /\ DOMAIN m = 1 .. n + 1
      /\ \A i \in 1 .. n : m[i] = FromStack(order[i], snap[order[i]], available)
      /\ m[n + 1] = ClusterLocalLB
      /\ m = [i \in 1 .. n + 1 |-> m[i]]
  BY <1>2 DEF ModelOf, n
<1>5. IsSequence(m)
  <2> DEFINE S == {m[i] : i \in DOMAIN m}
  <2>1. m \in [1 .. n + 1 -> S]
    BY <1>4
  <2> HIDE DEF S
  <2>2. Seq(S) = UNION {[1 .. k -> S] : k \in Nat}
    BY SeqDef
  <2>3. n + 1 \in Nat
    BY <1>2
  <2>4. m \in Seq(S)
    BY <2>1, <2>2, <2>3, Zenon
  <2> QED
    BY <2>4 DEF IsSequence, S
<1>6. ASSUME NEW i \in DOMAIN m PROVE Fresh(m[i])
  <2>1. CASE i = n + 1
    BY <2>1, <1>4 DEF Fresh
  <2>2. CASE i \in 1 .. n
    BY <2>2, <1>3, <1>4 DEF IsSnapshot, Fresh
  <2> QED
    BY <2>1, <2>2, <1>2, <1>4
<1>7. ASSUME DOMAIN snap # {} PROVE \E i \in DOMAIN m : m[i].stack # None
  <2>1. 1 \in 1 .. n /\ 1 \in DOMAIN m
    BY <1>2, <1>4, <1>7
  <2>2. order[1] \in StackName
    BY <2>1, <1>1, <1>3
  <2>3. m[1].stack = order[1]
    <3>1. m[1] = FromStack(order[1], snap[order[1]], available)
      BY <2>1, <1>4
    <3> QED
      BY <3>1 DEF FromStack
  <2> QED
    BY <2>1, <2>2, <2>3, ConstantsAssumption
<1>8. ASSUME NEW i \in 1 .. n, NEW j \in 1 .. n, i < j
      PROVE  order[i] # order[j]
  <2>1. Before(order[i], order[j])
    BY <1>8 DEF Orderings, n
  <2>2. order[i] \in DOMAIN snap /\ order[i] \in StackName
    BY <1>1, <1>3
  <2>3. DOMAIN snap[order[i]].certs \in SUBSET Cert
    BY <2>2 DEF IsSnapshot, IsStack
  <2>4. Cardinality(DOMAIN snap[order[i]].certs) \in Nat /\ order[i] \in Nat
    BY <2>2, <2>3, ConstantsAssumption, FS_Subset, FS_CardinalityType
  <2> QED
    BY <2>1, <2>4 DEF Before
<1>9. \A i \in 1 .. n : m[i].stack = order[i]
  <2> TAKE i \in 1 .. n
  <2>1. m[i] = FromStack(order[i], snap[order[i]], available)
    BY <1>4
  <2> QED
    BY <2>1 DEF FromStack
<1>10. ASSUME NEW i \in DOMAIN m, NEW j \in DOMAIN m,
              m[i].stack # None, m[i].stack = m[j].stack
       PROVE  i = j
  <2>1. m[n + 1].stack = None
    BY <1>4, ClusterLocalLBFacts
  <2>2. i \in 1 .. n /\ j \in 1 .. n
    BY <1>2, <1>4, <1>10, <2>1
  <2>3. order[i] = order[j]
    BY <1>9, <1>10, <2>2
  <2> QED
    BY <1>8, <2>2, <2>3
<1> QED
  BY <1>5, <1>6, <1>7, <1>10

LEMMA FreshType ==
  ASSUME available \in SUBSET Cert, NEW lb, Fresh(lb)
  PROVE  IsLB(lb) /\ Members(lb) = {}
BY FromStackFacts, ClusterLocalLBFacts DEF Fresh, Members

LEMMA InitialModel ==
  ASSUME Init
  PROVE  IsSequence(model) /\ \A i \in DOMAIN model : Fresh(model[i])
BY BuiltModel DEF Init

LEMMA PlaceKeepsTypes ==
  ASSUME TypeOK, NEW id \in Ident, Place(id)
  PROVE  TypeOK'
<1>1. ASSUME PlaceClusterLocal(id) PROVE TypeOK'
  BY <1>1, StepOfClusterLocal
  DEF TypeOK, PlaceClusterLocal, inputVars, Grows
<1>2. ASSUME SkipWithoutCertificate(id) PROVE TypeOK'
  BY <1>2 DEF TypeOK, SkipWithoutCertificate, inputVars
<1>3. ASSUME PlaceOnFirstFit(id) PROVE TypeOK'
  BY <1>3, StepOfFirstFit DEF TypeOK, PlaceOnFirstFit, inputVars, Grows
<1>4. ASSUME PlaceOnNew(id) PROVE TypeOK'
  <2>1. \A i \in DOMAIN model' : IsLB(model'[i])
    BY <1>4, StepOfNew DEF TypeOK, Extends
  <2> QED
    BY <1>4, <2>1, StepOfNew DEF TypeOK, PlaceOnNew, inputVars, Extends
<1> QED
  BY <1>1, <1>2, <1>3, <1>4 DEF Place

(* Every load balancer of the model stays a load balancer, and the         *)
(* resources still to be placed stay listed.                               *)
THEOREM TypeCorrect == Spec => []TypeOK
<1>1. Init => TypeOK
  <2> SUFFICES ASSUME Init PROVE TypeOK
    OBVIOUS
  <2>1. \A i \in DOMAIN model : IsLB(model[i])
    BY InitialModel, FreshType DEF Init
  <2> QED
    BY <2>1, InitialModel DEF Init, TypeOK
<1>2. TypeOK /\ [Next]_matchVars => TypeOK'
  <2>1. TypeOK /\ UNCHANGED matchVars => TypeOK'
    BY DEF TypeOK, matchVars
  <2> QED
    BY <2>1, PlaceKeepsTypes DEF Next
<1> QED
  BY <1>1, <1>2, PTL DEF Spec

-----------------------------------------------------------------------------
(* Every resource is placed once *)

LEMMA MembersOfJoined ==
  ASSUME NEW new, NEW lb, NEW id, NEW keys,
         Joined(new, lb, id, keys), keys # {}
  PROVE  \A x : x \in Members(new) <=> x \in Members(lb) \/ x = id
BY DEF Joined, Members

(* What holds of a resource follows from what the inputs say of it and     *)
(* from the load balancers it is on.                                       *)
Placed(id) ==
  IF id \in todo \/ Keys(id) = {}
    THEN ServedBy(id) = {}
    ELSE \E i \in DOMAIN model :
           /\ ServedBy(id) = {i}
           /\ \A k \in DOMAIN model[i].ingresses :
                id \in model[i].ingresses[k] <=> k \in Keys(id)
           /\ Keys(id) \subseteq DOMAIN model[i].ingresses

LEMMA PlacedByGrowth ==
  ASSUME PlacedOnce, NEW id \in todo, id \in DOMAIN listed,
         NEW i, Grows(i, id, Keys(id)), Keys(id) # {},
         todo' = todo \ {id}, UNCHANGED inputVars
  PROVE  PlacedOnce'
<1>1. \A x : x \in Members(model'[i]) <=> x \in Members(model[i]) \/ x = id
  BY MembersOfJoined DEF Grows
<1>2. \A x : Keys(x)' = Keys(x)
  BY DEF Keys, Wanted, inputVars
<1>3. ASSUME NEW x \in DOMAIN listed PROVE Placed(x)'
  <2>1. CASE x = id
    <3>1. ServedBy(id) = {}
      BY DEF PlacedOnce
    <3>2. ServedBy(id)' = {i}
      BY <1>1, <3>1 DEF ServedBy, Grows
    <3>3. id \notin Members(model[i])
      BY <3>1 DEF ServedBy, Grows
    <3>4. \A k \in DOMAIN model'[i].ingresses :
            id \in model'[i].ingresses[k] <=> k \in Keys(id)
      BY <3>3 DEF Grows, Joined, Members
    <3>5. Keys(id) \subseteq DOMAIN model'[i].ingresses /\ i \in DOMAIN model'
      BY DEF Grows, Joined
    <3> QED
      BY <2>1, <1>2, <3>2, <3>4, <3>5 DEF Placed
  <2>2. CASE x # id
    <3>1. ServedBy(x)' = ServedBy(x)
      BY <2>2, <1>1 DEF ServedBy, Grows
    <3>2. x \in todo' <=> x \in todo
      BY <2>2
    <3>3. Placed(x)
      BY DEF PlacedOnce, Placed
    <3>4. CASE x \in todo \/ Keys(x) = {}
      BY <3>1, <3>2, <3>3, <3>4, <1>2 DEF Placed
    <3>5. CASE x \notin todo /\ Keys(x) # {}
      <4>1. PICK j \in DOMAIN model :
              /\ ServedBy(x) = {j}
              /\ \A k \in DOMAIN model[j].ingresses :
                   x \in model[j].ingresses[k] <=> k \in Keys(x)
              /\ Keys(x) \subseteq DOMAIN model[j].ingresses
        BY <3>3, <3>5 DEF Placed
      <4>2. /\ j \in DOMAIN model'
            /\ \A k \in DOMAIN model'[j].ingresses :
                 x \in model'[j].ingresses[k] <=> k \in Keys(x)
            /\ Keys(x) \subseteq DOMAIN model'[j].ingresses
        BY <4>1, <2>2 DEF Grows, Joined
      <4> QED
        BY <1>2, <3>1, <3>2, <3>5, <4>1, <4>2 DEF Placed
    <3> QED
      BY <3>4, <3>5
  <2> QED
    BY <2>1, <2>2
<1> QED
  BY <1>3 DEF PlacedOnce, Placed, inputVars

LEMMA PlacedByExtension ==
  ASSUME PlacedOnce, NEW id \in todo, id \in DOMAIN listed,
         Extends(id), Keys(id) = Wanted(id), Wanted(id) # {},
         todo' = todo \ {id}, UNCHANGED inputVars
  PROVE  PlacedOnce'
<1> DEFINE n == Len(model) + 1
<1>1. /\ n \in DOMAIN model' /\ n \notin DOMAIN model
      /\ DOMAIN model' = DOMAIN model \cup {n}
      /\ \A j \in DOMAIN model : model'[j] = model[j]
  BY DEF Extends
<1>2. \A x : x \in Members(model'[n]) <=> x = id
  BY DEF Extends, Members
<1>3. \A x : Keys(x)' = Keys(x)
  BY DEF Keys, Wanted, inputVars
<1>4. /\ DOMAIN model'[n].ingresses = Wanted(id)
      /\ \A c \in Wanted(id) : model'[n].ingresses[c] = {id}
  BY DEF Extends
<1> HIDE DEF n
<1>5. ASSUME NEW x \in DOMAIN listed PROVE Placed(x)'
  <2>1. CASE x = id
    <3>1. ServedBy(id) = {}
      BY DEF PlacedOnce
    <3>2. ServedBy(id)' = {n}
      BY <1>1, <1>2, <3>1 DEF ServedBy
    <3> QED
      BY <2>1, <1>1, <1>3, <1>4, <3>2 DEF Placed
  <2>2. CASE x # id
    <3>1. ServedBy(x)' = ServedBy(x)
      BY <2>2, <1>1, <1>2 DEF ServedBy
    <3>2. x \in todo' <=> x \in todo
      BY <2>2
    <3>3. Placed(x)
      BY DEF PlacedOnce, Placed
    <3> QED
      BY <3>1, <3>2, <3>3, <1>1, <1>3 DEF Placed
  <2> QED
    BY <2>1, <2>2
<1> QED
  BY <1>5 DEF PlacedOnce, Placed, inputVars

LEMMA PlacedByStep ==
  ASSUME TypeOK, PlacedOnce, [Next]_matchVars
  PROVE  PlacedOnce'
<1>1. ASSUME NEW id \in Ident, PlaceClusterLocal(id) PROVE PlacedOnce'
  <2>1. PICK i \in DOMAIN model : Grows(i, id, Keys(id)) /\ Keys(id) # {}
    BY <1>1, StepOfClusterLocal DEF PlaceClusterLocal, Keys
  <2>2. /\ id \in todo /\ id \in DOMAIN listed
        /\ todo' = todo \ {id} /\ UNCHANGED inputVars
    BY <1>1 DEF PlaceClusterLocal, Turn, TypeOK
  <2> QED
    BY <2>1, <2>2, PlacedByGrowth
<1>2. ASSUME NEW id \in Ident, SkipWithoutCertificate(id) PROVE PlacedOnce'
  <2>1. Keys(id) = {}
    BY <1>2 DEF SkipWithoutCertificate, Keys
  <2>2. \A x : Keys(x)' = Keys(x) /\ ServedBy(x)' = ServedBy(x)
    BY <1>2 DEF SkipWithoutCertificate, Keys, Wanted, ServedBy, inputVars
  <2>3. \A x \in DOMAIN listed : Placed(x)
    BY DEF PlacedOnce, Placed
  <2>4. ASSUME NEW x \in DOMAIN listed PROVE Placed(x)'
    BY <1>2, <2>1, <2>2, <2>3 DEF Placed, SkipWithoutCertificate
  <2> QED
    BY <1>2, <2>4 DEF PlacedOnce, Placed, SkipWithoutCertificate, inputVars
<1>3. ASSUME NEW id \in Ident, PlaceOnFirstFit(id) PROVE PlacedOnce'
  <2>1. PICK i \in Fits(id) : Grows(i, id, Keys(id)) /\ Keys(id) # {}
    BY <1>3, StepOfFirstFit DEF PlaceOnFirstFit, Keys
  <2>2. /\ id \in todo /\ id \in DOMAIN listed
        /\ todo' = todo \ {id} /\ UNCHANGED inputVars
    BY <1>3 DEF PlaceOnFirstFit, Turn, TypeOK
  <2> QED
    BY <2>1, <2>2, PlacedByGrowth
<1>4. ASSUME NEW id \in Ident, PlaceOnNew(id) PROVE PlacedOnce'
  <2>1. Extends(id) /\ Keys(id) = Wanted(id) /\ Wanted(id) # {}
    BY <1>4, StepOfNew DEF PlaceOnNew, Keys
  <2>2. /\ id \in todo /\ id \in DOMAIN listed
        /\ todo' = todo \ {id} /\ UNCHANGED inputVars
    BY <1>4 DEF PlaceOnNew, Turn, TypeOK
  <2> QED
    BY <2>1, <2>2, PlacedByExtension
<1>5. CASE UNCHANGED matchVars
  BY <1>5 DEF PlacedOnce, matchVars, Keys, Wanted, ServedBy
<1> QED
  BY <1>1, <1>2, <1>3, <1>4, <1>5 DEF Next, Place

(* No order of the resources, no set of stacks and no certificates make    *)
(* the loop of matchIngressesToLoadBalancers lose or duplicate a resource. *)
THEOREM PlacementCorrect == Spec => []PlacedOnce
<1>1. Init => PlacedOnce
  <2> SUFFICES ASSUME Init, NEW id \in DOMAIN listed PROVE ServedBy(id) = {}
    BY DEF Init, PlacedOnce
  <2>1. \A i \in DOMAIN model : Members(model[i]) = {}
    BY InitialModel, FreshType DEF Init
  <2> QED
    BY <2>1 DEF ServedBy
<1> QED
  BY <1>1, PlacedByStep, TypeCorrect, PTL DEF Spec

-----------------------------------------------------------------------------
(* Ownership, settings and capacity *)

(* What addIngress leaves behind in a load balancer: l.shared is false     *)
(* only where an owner keeps others out, or where a resource that does not *)
(* share was the first and only one of a new load balancer.                *)
SharingKept(lb) ==
  /\ lb.clusterLocal => lb.class = None /\ lb.stack = None
  /\ lb.stack = None => lb.owner = None
  /\ lb.stack # None /\ ~lb.shared => lb.owner # None
  /\ lb.stack = None /\ ~lb.clusterLocal /\ ~lb.shared
       => \E x : Members(lb) \subseteq {x}

OwnershipKept(lb) ==
  \A id \in Members(lb) :
    /\ lb.owner # None => NameOf[id] = lb.owner
    /\ (lb.stack # None /\ ~listed[id].shared) => lb.owner = NameOf[id]

SettingsKept(lb) ==
  ~lb.clusterLocal =>
    \A id \in Members(lb) :
      /\ listed[id].class = lb.class
      /\ listed[id].shared => listed[id].sg = lb.sg /\ listed[id].waf = lb.waf

CapacityKept(lb) ==
  Cardinality(DOMAIN lb.ingresses) > MaxCerts =>
    \/ lb.clusterLocal
    \/ lb.stack # None /\ DOMAIN lb.ingresses = DOMAIN lb.existing
    \/ /\ lb.stack = None
       /\ \E id \in Members(lb) : DOMAIN lb.ingresses = Wanted(id)

LBInv(lb) ==
  SharingKept(lb) /\ OwnershipKept(lb) /\ SettingsKept(lb) /\ CapacityKept(lb)

IInv == \A i \in DOMAIN model : LBInv(model[i])

LEMMA InputsKept ==
  ASSUME UNCHANGED inputVars, NEW lb, LBInv(lb)
  PROVE  LBInv(lb)'
BY DEF LBInv, SharingKept, OwnershipKept, SettingsKept, CapacityKept,
       Wanted, inputVars

(* The cluster-local load balancer is of no class and of no owner. *)
LEMMA ClusterLocalKept ==
  ASSUME NEW lb, LBInv(lb), lb.clusterLocal, NEW new, NEW id,
         Joined(new, lb, id, {ClusterLocalDomain}), SameSettings(new, lb)
  PROVE  LBInv(new)
BY DEF LBInv, SharingKept, OwnershipKept, SettingsKept, CapacityKept,
       SameSettings

LEMMA AcceptedKept ==
  ASSUME NEW lb, IsLB(lb), LBInv(lb), NEW new, IsLB(new), NEW id \in Ident,
         listed[id] \in Resource, Wanted(id) \in (SUBSET Cert) \ {{}},
         Accepts(lb, id, listed[id], Wanted(id)),
         Joined(new, lb, id, Wanted(id)), SameSettings(new, lb),
         new.shared = listed[id].shared
  PROVE  LBInv(new)
<1>1. \A x : x \in Members(new) <=> x \in Members(lb) \/ x = id
  BY MembersOfJoined
<1>2. NameOf[id] \in Name /\ NameOf[id] # None
  BY ConstantsAssumption
<1>3. ~lb.clusterLocal
  BY ConstantsAssumption DEF Accepts, LBInv, SharingKept
<1>4. SharingKept(new)
  BY <1>2, <1>3 DEF Accepts, LBInv, SharingKept, SameSettings
<1>5. OwnershipKept(new)
  BY <1>1, <1>2 DEF Accepts, LBInv, OwnershipKept, SameSettings
<1>6. SettingsKept(new)
  BY <1>1, <1>3 DEF Accepts, LBInv, SettingsKept, SameSettings
<1>7. CapacityKept(new)
  <2>1. Cardinality(DOMAIN new.ingresses) <= MaxCerts
    BY DEF Accepts, Joined
  <2>2. DOMAIN new.ingresses \subseteq Key /\ IsFiniteSet(Key)
    BY ConstantsAssumption, FS_AddElement DEF IsLB, Key
  <2>3. Cardinality(DOMAIN new.ingresses) \in Nat
    BY <2>2, FS_Subset, FS_CardinalityType
  <2> QED
    BY <2>1, <2>3, ConstantsAssumption DEF CapacityKept
<1> QED
  BY <1>4, <1>5, <1>6, <1>7 DEF LBInv

LEMMA NewKept ==
  ASSUME NEW id, Extends(id), Wanted(id) # {}
  PROVE  LBInv(model'[Len(model) + 1])
<1> DEFINE new == model'[Len(model) + 1]
<1>1. /\ DOMAIN new.ingresses = Wanted(id)
      /\ \A c \in Wanted(id) : new.ingresses[c] = {id}
      /\ new.stack = None /\ new.owner = None /\ ~new.clusterLocal
      /\ new.class = listed[id].class
      /\ new.sg = listed[id].sg /\ new.waf = listed[id].waf
  BY DEF Extends
<1> HIDE DEF new
<1>2. Members(new) = {id}
  BY <1>1 DEF Members
<1>3. SharingKept(new) /\ OwnershipKept(new) /\ SettingsKept(new)
  BY <1>1, <1>2 DEF SharingKept, OwnershipKept, SettingsKept
<1>4. CapacityKept(new)
  BY <1>1, <1>2 DEF CapacityKept
<1> QED
  BY <1>3, <1>4 DEF LBInv, new

LEMMA FreshKept ==
  ASSUME available \in SUBSET Cert, NEW lb, Fresh(lb)
  PROVE  LBInv(lb)
<1>1. Members(lb) = {}
  BY FreshType
<1>2. CASE lb = ClusterLocalLB
  BY <1>1, <1>2, ClusterLocalLBFacts
  DEF LBInv, SharingKept, OwnershipKept, SettingsKept, CapacityKept
<1>3. ASSUME NEW s \in DOMAIN snap, s \in StackName, IsStack(snap[s]),
             lb = FromStack(s, snap[s], available)
      PROVE  LBInv(lb)
  <2>1. /\ DOMAIN lb.ingresses = DOMAIN lb.existing
        /\ lb.stack = s /\ ~lb.clusterLocal
        /\ lb.shared <=> lb.owner = None
    BY <1>3, FromStackFacts
  <2>2. s # None
    BY <1>3, ConstantsAssumption
  <2> QED
    BY <1>1, <2>1, <2>2
    DEF LBInv, SharingKept, OwnershipKept, SettingsKept, CapacityKept
<1> QED
  BY <1>2, <1>3 DEF Fresh

LEMMA PlaceKeepsInvariant ==
  ASSUME TypeOK, IInv, NEW id \in Ident, Place(id)
  PROVE  IInv'
<1>1. ASSUME PlaceClusterLocal(id) PROVE IInv'
  <2>1. PICK i \in DOMAIN model :
          model[i].clusterLocal /\ Grows(i, id, {ClusterLocalDomain})
    BY <1>1, StepOfClusterLocal
  <2>2. LBInv(model[i])
    BY DEF IInv
  <2>3. LBInv(model'[i])
    BY <2>1, <2>2, ClusterLocalKept DEF Grows
  <2>4. \A j \in DOMAIN model' : LBInv(model'[j])
    BY <2>1, <2>3 DEF IInv, Grows
  <2>5. UNCHANGED inputVars
    BY <1>1 DEF PlaceClusterLocal
  <2> QED
    BY <2>4, <2>5, InputsKept DEF IInv
<1>2. ASSUME SkipWithoutCertificate(id) PROVE IInv'
  BY <1>2, InputsKept DEF IInv, SkipWithoutCertificate
<1>3. ASSUME PlaceOnFirstFit(id) PROVE IInv'
  <2>1. PICK i \in Fits(id) : /\ Grows(i, id, Wanted(id))
                             /\ model'[i].shared = listed[id].shared
    BY <1>3, StepOfFirstFit
  <2>2. Wanted(id) \in (SUBSET Cert) \ {{}}
    BY <1>3, StepOfFirstFit
  <2>3. listed[id] \in Resource
    BY <1>3 DEF TypeOK, PartialFunction, PlaceOnFirstFit, Turn
  <2>4. /\ i \in DOMAIN model /\ IsLB(model[i]) /\ LBInv(model[i])
        /\ Accepts(model[i], id, listed[id], Wanted(id))
    BY DEF Fits, TypeOK, IInv
  <2>5. LBInv(model'[i])
    BY <2>1, <2>2, <2>3, <2>4, AcceptedKept DEF Grows
  <2>6. \A j \in DOMAIN model' : LBInv(model'[j])
    BY <2>1, <2>5 DEF IInv, Grows
  <2>7. UNCHANGED inputVars
    BY <1>3 DEF PlaceOnFirstFit
  <2> QED
    BY <2>6, <2>7, InputsKept DEF IInv
<1>4. ASSUME PlaceOnNew(id) PROVE IInv'
  <2>1. Extends(id) /\ Wanted(id) # {}
    BY <1>4, StepOfNew
  <2>2. LBInv(model'[Len(model) + 1])
    BY <2>1, NewKept
  <2>3. \A j \in DOMAIN model' : LBInv(model'[j])
    BY <2>1, <2>2 DEF IInv, Extends
  <2>4. UNCHANGED inputVars
    BY <1>4 DEF PlaceOnNew
  <2> QED
    BY <2>3, <2>4, InputsKept DEF IInv
<1> QED
  BY <1>1, <1>2, <1>3, <1>4 DEF Place

LEMMA InductiveInvariant == Spec => []IInv
<1>1. Init => IInv
  BY InitialModel, FreshKept DEF Init, IInv
<1>2. TypeOK /\ IInv /\ [Next]_matchVars => IInv'
  <2>1. IInv /\ UNCHANGED matchVars => IInv'
    BY InputsKept DEF IInv, matchVars, inputVars
  <2> QED
    BY <2>1, PlaceKeepsInvariant DEF Next
<1> QED
  BY <1>1, <1>2, TypeCorrect, PTL DEF Spec

(* An owned stack serves its owner only, and a resource that does not      *)
(* share is on no stack but its own.                                       *)
THEOREM OwnershipCorrect == Spec => []OwnershipRespected
<1>1. IInv => OwnershipRespected
  BY DEF IInv, LBInv, OwnershipKept, OwnershipRespected
<1> QED
  BY <1>1, InductiveInvariant, PTL

(* The order in which Go walks the map of a load balancer does not decide  *)
(* which owner is written to its stack.                                    *)
THEOREM OwnerIsDeterminate == Spec => []OwnerDeterminate
<1>1. IInv => OwnerDeterminate
  <2> SUFFICES ASSUME IInv, NEW i \in DOMAIN model, ~model[i].clusterLocal,
                      NEW a \in Owners(model[i]), NEW b \in Owners(model[i])
               PROVE  a = b
    BY DEF OwnerDeterminate
  <2>1. SharingKept(model[i]) /\ OwnershipKept(model[i])
    BY DEF IInv, LBInv
  <2>2. CASE model[i].shared \/ Members(model[i]) = {}
    BY <2>2 DEF Owners
  <2>3. CASE ~model[i].shared /\ Members(model[i]) # {}
    BY <2>1, <2>3 DEF Owners, SharingKept, OwnershipKept
  <2> QED
    BY <2>2, <2>3
<1> QED
  BY <1>1, InductiveInvariant, PTL

(* Resources on one load balancer agree in what cannot be changed later.   *)
THEOREM SettingsCorrect == Spec => []SettingsAgree
<1>1. IInv => SettingsAgree
  BY DEF IInv, LBInv, SettingsKept, SettingsAgree
<1> QED
  BY <1>1, InductiveInvariant, PTL

(* The certificate limit holds but for the two cases CapacityRespected     *)
(* names.                                                                  *)
THEOREM CapacityCorrect == Spec => []CapacityRespected
<1>1. IInv => CapacityRespected
  BY DEF IInv, LBInv, CapacityKept, CapacityRespected
<1> QED
  BY <1>1, InductiveInvariant, PTL
=============================================================================
