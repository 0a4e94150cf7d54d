------------------------------- MODULE Network -------------------------------
(***************************************************************************)
(* Which subnets a load balancer is put into.  The subnets of the VPC are  *)
(* read once, when the controller starts (buildManifest and getSubnets);   *)
(* FindLBSubnets then picks one subnet per zone for every stack that is    *)
(* created or updated.  One action considers one subnet of its loop, in    *)
(* any order, since the order in which EC2 lists subnets is not fixed.     *)
(***************************************************************************)
EXTENDS Integers, FiniteSets

CONSTANTS
  Subnet,   \* subnet ids, ordered like their names
  Zone,     \* availability zones
  Table,    \* route tables
  NoTable   \* stands for the absence of a route table

ASSUME NetworkAssumption ==
  /\ Subnet \subseteq Nat
  /\ NoTable \notin Table

VARIABLES
  vpc,         \* the subnets and route tables as EC2 knows them
  manifest,    \* the details of the subnets, read at start-up; {} before
  internal,    \* whether the scheme asked for is "internal"
  left,        \* the subnets the loop has still to look at
  subnetsByAZ  \* the subnet that is preferred so far, by zone

loopVars == <<internal, left, subnetsByAZ>>
netVars == <<vpc, manifest, internal, left, subnetsByAZ>>

-----------------------------------------------------------------------------
(* Tags: of the cluster, and of the two roles of subnets. *)
Tag == {"cluster", "elb", "internal-elb"}

VPC ==
  [subnets : SUBSET Subnet, zone : [Subnet -> Zone],
   tags : [Subnet -> SUBSET Tag],
   explicit : [Subnet -> Table \cup {NoTable}],  \* associated route tables
   main : Table \cup {NoTable},                  \* the VPC's main route table
   internet : SUBSET Table]                   \* those with a route to an igw

Details == [id : Subnet, zone : Zone, public : BOOLEAN, tags : SUBSET Tag]

RouteTable(s) == IF vpc.explicit[s] # NoTable THEN vpc.explicit[s] ELSE vpc.main

isSubnetPublic(s) == RouteTable(s) \in vpc.internet

(* The subnets with the tag of the cluster, or all if none has it. *)
getSubnets ==
  LET all    == {[id |-> s, zone |-> vpc.zone[s], public |-> isSubnetPublic(s),
                  tags |-> vpc.tags[s]] : s \in vpc.subnets}
      tagged == {d \in all : "cluster" \in d.tags}
  IN  IF tagged = {} THEN all ELSE tagged

(* Every subnet needs a route table, and there must be a subnet at all. *)
Discoverable ==
  /\ \A s \in vpc.subnets : RouteTable(s) # NoTable
  /\ vpc.subnets # {}

(* No subnet has been looked at yet. *)
BuildManifest ==
  /\ manifest = {}
  /\ Discoverable
  /\ manifest' = getSubnets
  /\ left' = manifest'
  /\ UNCHANGED <<vpc, internal, subnetsByAZ>>

-----------------------------------------------------------------------------
(* FindLBSubnets *)

StartFinding(isInternal) ==
  /\ manifest # {}
  /\ internal' = isInternal
  /\ left' = manifest
  /\ subnetsByAZ' = [z \in {} |-> z]
  /\ UNCHANGED <<vpc, manifest>>

RoleTag == IF internal THEN "internal-elb" ELSE "elb"

(* An error: the tags of the role are not looked at. *)
PreferredById(new, existing) == new.id < existing.id

Preferred(new, existing) ==
  IF RoleTag \in existing.tags <=> RoleTag \in new.tags
    THEN new.id < existing.id
    ELSE RoleTag \in new.tags

Ignore(d) ==
  /\ d \in left
  /\ ~internal /\ ~d.public
  /\ left' = left \ {d}
  /\ UNCHANGED <<vpc, manifest, internal, subnetsByAZ>>

Consider(d) ==
  /\ d \in left
  /\ internal \/ d.public
  /\ left' = left \ {d}
  /\ subnetsByAZ' =
       [z \in DOMAIN subnetsByAZ \cup {d.zone} |->
          IF z = d.zone /\ (z \in DOMAIN subnetsByAZ => Preferred(d, subnetsByAZ[z]))
            THEN d ELSE subnetsByAZ[z]]
  /\ UNCHANGED <<vpc, manifest, internal>>

(* The result of the loop. *)
SubnetIDs == {subnetsByAZ[z].id : z \in DOMAIN subnetsByAZ}

-----------------------------------------------------------------------------
VPCChanges ==
  /\ vpc' \in VPC
  /\ UNCHANGED <<manifest, loopVars>>

Reboot ==
  /\ manifest' = {} /\ left' = {} /\ subnetsByAZ' = [z \in {} |-> z]
  /\ UNCHANGED <<vpc, internal>>

NoManifest ==
  /\ manifest = {} /\ left = {} /\ subnetsByAZ = [z \in {} |-> z]
  /\ internal = FALSE

NetworkInit == vpc \in VPC /\ NoManifest

NetworkNext ==
  \/ BuildManifest
  \/ \E isInternal \in BOOLEAN : StartFinding(isInternal)
  \/ \E d \in left : Ignore(d) \/ Consider(d)
  \/ VPCChanges
  \/ Reboot

NetworkSpec == NetworkInit /\ [][NetworkNext]_netVars

-----------------------------------------------------------------------------
NetworkTypeOK ==
  /\ vpc \in VPC
  /\ manifest \subseteq Details
  /\ \A a, b \in manifest : a.id = b.id => a = b
  /\ internal \in BOOLEAN
  /\ left \subseteq manifest
  /\ DOMAIN subnetsByAZ \subseteq Zone
  /\ subnetsByAZ \in [DOMAIN subnetsByAZ -> manifest]

(* The subnets of a zone that may carry the load balancer, among those the *)
(* loop has seen.                                                          *)
Seen(z) == {d \in manifest \ left : d.zone = z /\ (internal \/ d.public)}

WithRole(ds) == {d \in ds : (IF internal THEN "internal-elb" ELSE "elb") \in d.tags}

(* In whatever order EC2 lists the subnets, FindLBSubnets ends up with the *)
(* same choice: in every zone with a subnet the load balancer may use, the *)
(* one with the least id among those tagged for its role, or among all if  *)
(* none is; an internet-facing load balancer gets public subnets only.     *)
BestOfZone ==
  \A z \in Zone :
    LET best == IF WithRole(Seen(z)) = {} THEN Seen(z) ELSE WithRole(Seen(z))
    IN  /\ z \in DOMAIN subnetsByAZ <=> Seen(z) # {}
        /\ z \in DOMAIN subnetsByAZ =>
             /\ subnetsByAZ[z] \in best
             /\ \A d \in best : subnetsByAZ[z].id <= d.id
=============================================================================
