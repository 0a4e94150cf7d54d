------------------------------ MODULE Matching ------------------------------
(***************************************************************************)
(* How buildManagedModel (worker.go) spreads the listed resources over the *)
(* load balancers of the cluster.  One action places one resource, so that *)
(* a property of the whole loop is an invariant of this state machine.     *)
(*                                                                         *)
(* The loop reads only what the poll cycle has fetched before: the stacks, *)
(* the certificates and the resources.  They do not change while it runs.  *)
(***************************************************************************)
EXTENDS LoadBalancer

VARIABLES
  snap,       \* the stacks, as FindManagedStacks returned them
  available,  \* the certificates, as GetCertificates returned them
  listed,     \* the resources, as ListResources returned them
  todo,       \* the resources that are still to be placed
  model       \* the load balancers: those of stacks first, then new ones

matchVars == <<snap, available, listed, todo, model>>

inputVars == <<snap, available, listed>>

-----------------------------------------------------------------------------
(* sortStacks: more certificates first, then by name. *)
Before(a, b) ==
  LET size(s) == Cardinality(DOMAIN snap[s].certs)
  IN  size(a) > size(b) \/ (size(a) = size(b) /\ a < b)

Orderings ==
  {order \in [1 .. Cardinality(DOMAIN snap) -> DOMAIN snap] :
     \A i, j \in 1 .. Cardinality(DOMAIN snap) :
       i < j => Before(order[i], order[j])}

(* getAllLoadBalancers, and the load balancer of cluster-local resources. *)
ModelOf(order) ==
  [i \in 1 .. Cardinality(DOMAIN snap) + 1 |->
     IF i <= Cardinality(DOMAIN snap)
       THEN FromStack(order[i], snap[order[i]], available)
       ELSE ClusterLocalLB]

-----------------------------------------------------------------------------
(* ListResources returns Ingresses first; the order within a kind is open. *)
Turn(id) ==
  /\ id \in todo
  /\ id \in RouteGroup => todo \subseteq RouteGroup

Wanted(id) == CertificatesFor(listed[id], available)

Fits(id) ==
  {i \in DOMAIN model : Accepts(model[i], id, listed[id], Wanted(id))}

PlaceClusterLocal(id) ==
  /\ Turn(id)
  /\ ClusterLocal(listed[id])
  /\ \E i \in DOMAIN model :
       /\ model[i].clusterLocal
       /\ model' = [model EXCEPT ![i] = AddTo(@, id, {ClusterLocalDomain})]
  /\ todo' = todo \ {id}
  /\ UNCHANGED inputVars

SkipWithoutCertificate(id) ==
  /\ Turn(id)
  /\ ~ClusterLocal(listed[id])
  /\ Wanted(id) = {}
  /\ todo' = todo \ {id}
  /\ UNCHANGED <<inputVars, model>>

PlaceOnFirstFit(id) ==
  /\ Turn(id)
  /\ ~ClusterLocal(listed[id])
  /\ Wanted(id) # {}
  /\ \E i \in Fits(id) :
       /\ \A j \in Fits(id) : i <= j
       /\ model' = [model EXCEPT ![i] = AddIngress(@, id, listed[id], Wanted(id))]
  /\ todo' = todo \ {id}
  /\ UNCHANGED inputVars

PlaceOnNew(id) ==
  /\ Turn(id)
  /\ ~ClusterLocal(listed[id])
  /\ Wanted(id) # {}
  /\ Fits(id) = {}
  /\ model' = Append(model, NewLB(id, listed[id], Wanted(id)))
  /\ todo' = todo \ {id}
  /\ UNCHANGED inputVars

Place(id) ==
  \/ PlaceClusterLocal(id)
  \/ SkipWithoutCertificate(id)
  \/ PlaceOnFirstFit(id)
  \/ PlaceOnNew(id)

-----------------------------------------------------------------------------
IsSnapshot(f) ==
  DOMAIN f \subseteq StackName /\ \A s \in DOMAIN f : IsStack(f[s])

Init ==
  /\ IsSnapshot(snap)
  /\ available \in (SUBSET Cert) \ {{}}
  /\ PartialFunction(listed, Ident, Resource)
  /\ todo = DOMAIN listed
  /\ \E order \in Orderings : model = ModelOf(order)

Next == \E id \in Ident : Place(id)

Spec == Init /\ [][Next]_matchVars

-----------------------------------------------------------------------------
(* Properties *)

TypeOK ==
  /\ IsSnapshot(snap)
  /\ available \in SUBSET Cert
  /\ PartialFunction(listed, Ident, Resource)
  /\ todo \in SUBSET DOMAIN listed
  /\ IsSequence(model) /\ \A i \in DOMAIN model : IsLB(model[i])

(* Every resource that has been looked at is served by exactly one load    *)
(* balancer, under exactly the certificates it asks for (under the cluster *)
(* local domain if it has no hostname), and by none if no certificate      *)
(* matches: the break in the loop of matchIngressesToLoadBalancers and the *)
(* certificate lists of addIngress together lose and duplicate nothing.    *)
Keys(id) == IF ClusterLocal(listed[id]) THEN {ClusterLocalDomain} ELSE Wanted(id)

ServedBy(id) == {i \in DOMAIN model : id \in Members(model[i])}

PlacedOnce ==
  \A id \in DOMAIN listed :
    IF id \in todo \/ Keys(id) = {}
      THEN ServedBy(id) = {}
      ELSE \E i \in DOMAIN model :
             /\ ServedBy(id) = {i}
             /\ \A k \in DOMAIN model[i].ingresses :
                  id \in model[i].ingresses[k] <=> k \in Keys(id)
             /\ Keys(id) \subseteq DOMAIN model[i].ingresses

(* A stack that has an owner serves nothing but the owner, and a resource  *)
(* that asks not to share is never put on a stack it does not own.  What   *)
(* addIngress leaves in l.shared for the next resource must not open it.   *)
OwnershipRespected ==
  \A i \in DOMAIN model : \A id \in Members(model[i]) :
    /\ model[i].owner # None => NameOf[id] = model[i].owner
    /\ (model[i].stack # None /\ ~listed[id].shared)
         => model[i].owner = NameOf[id]

(* Owner() returns the first resource of a Go map: the owner written to    *)
(* the stack must not depend on the iteration order of that map.           *)
OwnerDeterminate ==
  \A i \in DOMAIN model :
    ~model[i].clusterLocal => \A a, b \in Owners(model[i]) : a = b

(* All resources of a load balancer agree with it, and hence with each     *)
(* other, in what cannot be changed later (scheme, address type, type,     *)
(* HTTP/2), and the shared ones in security group and WAF web ACL.         *)
SettingsAgree ==
  \A i \in DOMAIN model : \A id \in Members(model[i]) :
    ~model[i].clusterLocal =>
      /\ listed[id].class = model[i].class
      /\ listed[id].shared =>
           listed[id].sg = model[i].sg /\ listed[id].waf = model[i].waf

(* A load balancer carries more than MaxCerts certificates only if its     *)
(* stack did so already, or if a single resource asks for that many: in    *)
(* both cases it has taken no certificate on top of these.                 *)
CapacityRespected ==
  \A i \in DOMAIN model :
    LET keys == DOMAIN model[i].ingresses IN
    Cardinality(keys) > MaxCerts =>
      \/ model[i].clusterLocal
      \/ model[i].stack # None /\ keys = DOMAIN model[i].existing
      \/ /\ model[i].stack = None
         /\ \E id \in Members(model[i]) : keys = Wanted(id)

=============================================================================
