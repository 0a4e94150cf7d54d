---------------------------- MODULE NetworkProofs ----------------------------
(***************************************************************************)
(* Proofs about Network: for all VPCs, route tables, tags and orders of    *)
(* the subnets, FindLBSubnets picks the best subnet of every zone.         *)
(***************************************************************************)
EXTENDS Network, TLAPS

-----------------------------------------------------------------------------
(* What is read at start-up is well typed, and no subnet is listed twice. *)
LEMMA ManifestType ==
  ASSUME vpc \in VPC
  PROVE  /\ getSubnets \subseteq Details
         /\ \A a, b \in getSubnets : a.id = b.id => a = b
<1> DEFINE all == {[id |-> s, zone |-> vpc.zone[s], public |-> isSubnetPublic(s),
                    tags |-> vpc.tags[s]] : s \in vpc.subnets}
<1>1. all \subseteq Details
  <2> SUFFICES ASSUME NEW s \in vpc.subnets
               PROVE  [id |-> s, zone |-> vpc.zone[s], public |-> isSubnetPublic(s),
                       tags |-> vpc.tags[s]] \in Details
    OBVIOUS
  <2>1. s \in Subnet /\ vpc.zone[s] \in Zone /\ vpc.tags[s] \in SUBSET Tag
    BY DEF VPC
  <2>2. isSubnetPublic(s) \in BOOLEAN
    BY DEF isSubnetPublic
  <2> QED  BY <2>1, <2>2 DEF Details
<1>2. \A a, b \in all : a.id = b.id => a = b
  OBVIOUS
<1>3. getSubnets \subseteq all
  BY DEF getSubnets
<1> QED  BY <1>1, <1>2, <1>3

-----------------------------------------------------------------------------
(* The state machine starts and stays well typed. *)
LEMMA NetworkTypeInit == NetworkInit => NetworkTypeOK
  BY DEF NetworkInit, NoManifest, NetworkTypeOK, Details

LEMMA NetworkTypeStep ==
  ASSUME NetworkTypeOK, [NetworkNext]_netVars
  PROVE  NetworkTypeOK'
<1> USE DEF NetworkTypeOK
<1>1. CASE BuildManifest
  <2>1. manifest' \subseteq Details /\ \A a, b \in manifest' : a.id = b.id => a = b
    BY <1>1, ManifestType DEF BuildManifest
  <2>2. DOMAIN subnetsByAZ = {}
    BY <1>1 DEF BuildManifest
  <2> QED  BY <1>1, <2>1, <2>2 DEF BuildManifest
<1>2. ASSUME NEW isInternal \in BOOLEAN, StartFinding(isInternal)
      PROVE  NetworkTypeOK'
  BY <1>2 DEF StartFinding
<1>3. ASSUME NEW d \in left, Ignore(d)
      PROVE  NetworkTypeOK'
  BY <1>3 DEF Ignore
<1>4. ASSUME NEW d \in left, Consider(d)
      PROVE  NetworkTypeOK'
  <2>1. d \in manifest /\ d.zone \in Zone
    BY DEF Details
  <2>2. DOMAIN subnetsByAZ' = DOMAIN subnetsByAZ \cup {d.zone}
    BY <1>4 DEF Consider
  <2>3. \A z \in DOMAIN subnetsByAZ' : subnetsByAZ'[z] \in manifest
    BY <1>4, <2>1 DEF Consider
  <2>4. subnetsByAZ' = [z \in DOMAIN subnetsByAZ' |-> subnetsByAZ'[z]]
    BY <1>4 DEF Consider
  <2>5. subnetsByAZ' \in [DOMAIN subnetsByAZ' -> manifest]
    BY <2>3, <2>4
  <2> QED  BY <1>4, <2>1, <2>2, <2>5 DEF Consider
<1>5. CASE VPCChanges
  BY <1>5 DEF VPCChanges, loopVars
<1>6. CASE Reboot
  BY <1>6 DEF Reboot
<1>7. CASE UNCHANGED netVars
  BY <1>7 DEF netVars
<1> QED  BY <1>1, <1>2, <1>3, <1>4, <1>5, <1>6, <1>7 DEF NetworkNext

-----------------------------------------------------------------------------
(* One more subnet of zone d.zone has been seen, none of another zone. *)
LEMMA SeenGrows ==
  ASSUME NetworkTypeOK, NEW d \in left, Consider(d), NEW z \in Zone
  PROVE  Seen(z)' = IF z = d.zone THEN Seen(z) \cup {d} ELSE Seen(z)
  BY DEF NetworkTypeOK, Consider, Seen

(* x is the best of the subnets S: no other has the role if x has not, and *)
(* none of those that are like x in this has a smaller id.                 *)
IsBest(x, S, role) ==
  /\ x \in S
  /\ \A e \in S : role \in e.tags => role \in x.tags
  /\ \A e \in S : (role \in e.tags <=> role \in x.tags) => x.id <= e.id

(* The two ways to say that x is the best. *)
LEMMA BestIsLeast ==
  ASSUME NEW S, NEW x, NEW role
  PROVE  LET W == {e \in S : role \in e.tags}
             best == IF W = {} THEN S ELSE W
         IN  (x \in best /\ \A e \in best : x.id <= e.id) <=> IsBest(x, S, role)
<1> DEFINE W == {e \in S : role \in e.tags}
<1>1. CASE W = {}
  <2>1. \A e \in S : role \notin e.tags
    BY <1>1
  <2> QED  BY <1>1, <2>1 DEF IsBest
<1>2. CASE W # {}
  <2>1. PICK w \in S : role \in w.tags
    BY <1>2
  <2> QED  BY <1>2, <2>1 DEF IsBest
<1> QED  BY <1>1, <1>2

(* The better of the best so far and of one more is the best of them all.  *)
LEMMA BetterOfTwo ==
  ASSUME NEW S, NEW d, NEW old, NEW role, NEW x,
         \A e \in S \cup {d} : e.id \in Nat,
         IsBest(old, S, role),
         x = IF (IF role \in old.tags <=> role \in d.tags
                   THEN d.id < old.id ELSE role \in d.tags)
               THEN d ELSE old
  PROVE  IsBest(x, S \cup {d}, role)
<1>1. old \in S /\ old.id \in Nat /\ d.id \in Nat
  BY DEF IsBest
<1>2. CASE role \in old.tags <=> role \in d.tags
  BY <1>1, <1>2 DEF IsBest
<1>3. CASE role \in old.tags /\ role \notin d.tags
  BY <1>1, <1>3 DEF IsBest
<1>4. CASE role \notin old.tags /\ role \in d.tags
  BY <1>1, <1>4 DEF IsBest
<1> QED  BY <1>2, <1>3, <1>4

(* The choice among the subnets of a zone stays the best when one more is  *)
(* considered.                                                             *)
LEMMA ConsiderKeepsBest ==
  ASSUME NetworkTypeOK, BestOfZone, NEW d \in left, Consider(d), NEW z \in Zone,
         z = d.zone
  PROVE  IsBest(subnetsByAZ'[z], Seen(z) \cup {d}, RoleTag)
<1>1. \A e \in Seen(z) \cup {d} : e.id \in Nat
  BY NetworkAssumption DEF NetworkTypeOK, Details, Seen
<1>2. subnetsByAZ'[z] = IF z \in DOMAIN subnetsByAZ => Preferred(d, subnetsByAZ[z])
                        THEN d ELSE subnetsByAZ[z]
  BY DEF Consider
<1>3. CASE z \notin DOMAIN subnetsByAZ
  <2>1. Seen(z) = {} /\ subnetsByAZ'[z] = d
    BY <1>2, <1>3 DEF BestOfZone
  <2> QED  BY <1>1, <2>1 DEF IsBest
<1>4. CASE z \in DOMAIN subnetsByAZ
  <2>1. IsBest(subnetsByAZ[z], Seen(z), RoleTag)
    <3>1. LET W == {e \in Seen(z) : RoleTag \in e.tags}
              best == IF W = {} THEN Seen(z) ELSE W
          IN  subnetsByAZ[z] \in best /\ \A e \in best : subnetsByAZ[z].id <= e.id
      BY <1>4 DEF BestOfZone, WithRole, RoleTag
    <3> QED  BY <3>1, BestIsLeast
  <2> QED  BY <1>1, <1>2, <1>4, <2>1, BetterOfTwo DEF Preferred
<1> QED  BY <1>3, <1>4

-----------------------------------------------------------------------------
(* BestOfZone holds before a subnet has been looked at. *)
LEMMA NothingSeen ==
  ASSUME \A z \in Zone : Seen(z) = {}, DOMAIN subnetsByAZ = {}
  PROVE  BestOfZone
  BY DEF BestOfZone

LEMMA BestOfZoneInit == NetworkInit => BestOfZone
  BY NothingSeen DEF NetworkInit, NoManifest, Seen

LEMMA BestOfZoneStep ==
  ASSUME NetworkTypeOK, BestOfZone, [NetworkNext]_netVars
  PROVE  BestOfZone'
<1>1. ASSUME \A z \in Zone : Seen(z)' = {}, DOMAIN subnetsByAZ' = {}
      PROVE  BestOfZone'
  BY <1>1 DEF BestOfZone
<1>2. ASSUME UNCHANGED <<manifest, left, internal, subnetsByAZ>>
      PROVE  BestOfZone'
  <2>1. \A z \in Zone : Seen(z)' = Seen(z)
    BY <1>2 DEF Seen
  <2>2. \A z \in Zone : WithRole(Seen(z))' = WithRole(Seen(z))
    BY <1>2, <2>1 DEF WithRole
  <2> QED  BY <1>2, <2>1, <2>2 DEF BestOfZone
<1>3. CASE BuildManifest
  BY <1>1, <1>3 DEF BuildManifest, Seen, NetworkTypeOK
<1>4. ASSUME NEW isInternal \in BOOLEAN, StartFinding(isInternal)
      PROVE  BestOfZone'
  BY <1>1, <1>4 DEF StartFinding, Seen
<1>5. ASSUME NEW d \in left, Ignore(d)
      PROVE  BestOfZone'
  <2>1. \A z \in Zone : Seen(z)' = Seen(z)
    BY <1>5 DEF Ignore, Seen, NetworkTypeOK
  <2>2. \A z \in Zone : WithRole(Seen(z))' = WithRole(Seen(z))
    BY <1>5, <2>1 DEF Ignore, WithRole
  <2> QED  BY <1>5, <2>1, <2>2 DEF Ignore, BestOfZone
<1>6. ASSUME NEW d \in left, Consider(d)
      PROVE  BestOfZone'
  <2> SUFFICES ASSUME NEW z \in Zone
               PROVE  LET best == IF WithRole(Seen(z))' = {} THEN Seen(z)'
                                  ELSE WithRole(Seen(z))'
                      IN  /\ z \in DOMAIN subnetsByAZ' <=> Seen(z)' # {}
                          /\ z \in DOMAIN subnetsByAZ' =>
                               /\ subnetsByAZ'[z] \in best
                               /\ \A e \in best : subnetsByAZ'[z].id <= e.id
    BY DEF BestOfZone
  <2>1. DOMAIN subnetsByAZ' = DOMAIN subnetsByAZ \cup {d.zone}
    BY <1>6 DEF Consider
  <2>2. CASE z = d.zone
    <3>1. Seen(z)' = Seen(z) \cup {d}
      BY <1>6, <2>2, SeenGrows
    <3>2. WithRole(Seen(z))' = {e \in Seen(z) \cup {d} : RoleTag \in e.tags}
      BY <1>6, <3>1 DEF WithRole, RoleTag, Consider
    <3>3. IsBest(subnetsByAZ'[z], Seen(z) \cup {d}, RoleTag)
      BY <1>6, <2>2, ConsiderKeepsBest
    <3>4. LET W == {e \in Seen(z) \cup {d} : RoleTag \in e.tags}
              best == IF W = {} THEN Seen(z) \cup {d} ELSE W
          IN  subnetsByAZ'[z] \in best /\ \A e \in best : subnetsByAZ'[z].id <= e.id
      BY <3>3, BestIsLeast
    <3> QED  BY <2>1, <2>2, <3>1, <3>2, <3>4
  <2>3. CASE z # d.zone
    <3>1. Seen(z)' = Seen(z)
      BY <1>6, <2>3, SeenGrows
    <3>2. WithRole(Seen(z))' = WithRole(Seen(z))
      BY <1>6, <3>1 DEF WithRole, Consider
    <3>3. z \in DOMAIN subnetsByAZ => subnetsByAZ'[z] = subnetsByAZ[z]
      BY <1>6, <2>3 DEF Consider
    <3> QED  BY <2>1, <2>3, <3>1, <3>2, <3>3 DEF BestOfZone
  <2> QED  BY <2>2, <2>3
<1>7. CASE VPCChanges
  BY <1>2, <1>7 DEF VPCChanges, loopVars
<1>8. CASE Reboot
  BY <1>1, <1>8 DEF Reboot, Seen
<1>9. CASE UNCHANGED netVars
  BY <1>2, <1>9 DEF netVars
<1> QED  BY <1>3, <1>4, <1>5, <1>6, <1>7, <1>8, <1>9 DEF NetworkNext

-----------------------------------------------------------------------------
(* FindLBSubnets (adapter.go) works on subnets that were read from EC2.    *)
THEOREM NetworkTypeCorrect == NetworkSpec => []NetworkTypeOK
<1>1. NetworkTypeOK /\ [NetworkNext]_netVars => NetworkTypeOK'
  BY NetworkTypeStep
<1> QED  BY NetworkTypeInit, <1>1, PTL DEF NetworkSpec

(* In whatever order EC2 lists the subnets, FindLBSubnets ends up with the *)
(* best subnet of every zone.                                              *)
THEOREM BestOfZoneCorrect == NetworkSpec => []BestOfZone
<1>1. BestOfZone /\ NetworkTypeOK /\ [NetworkNext]_netVars => BestOfZone'
  BY BestOfZoneStep
<1> QED  BY BestOfZoneInit, NetworkTypeCorrect, <1>1, PTL DEF NetworkSpec
=============================================================================
