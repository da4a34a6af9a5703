----------------------------- MODULE ClusterVpc -----------------------------
(***************************************************************************)
(* Where the operator puts its instances.  In a bundled AWS cluster they   *)
(* go into the cluster's own VPC: the Postgres and the Redis controller,   *)
(* each in its own goroutine, see to a subnet group that spans all         *)
(* availability zones, create the private subnets that are missing, and    *)
(* share one security group (configureRDSVpc, configureElasticacheVpc and  *)
(* cluster_vpc.go).  Otherwise a block of addresses is planned for a       *)
(* network of its own, a standalone VPC on AWS or an IP range on GCP; what *)
(* becomes of that network is the subject of StandaloneNetwork and         *)
(* GCPNetwork.                                                             *)
(***************************************************************************)
EXTENDS Addresses

CONSTANTS
  Clusters,   \* the clusters the operator may be installed in
  Zones,      \* availability zones of the region
  MaxTrouble  \* bound on failed calls, lost answers, crashes and zone outages

Kinds == {"postgres", "redis"}

ASSUME BoundsAssumption == MaxTrouble \in Nat /\ IsFiniteSet(Zones)
ASSUME ClustersAssumption ==
  \A c \in Clusters :
    /\ c.mode \in {"bundled", "standalone", "gcp"}
    /\ c.vpc \in Blocks /\ c.vpc.mask > 0
    /\ c.pods \in Seq(Blocks) /\ c.services \in Seq(Blocks)
    /\ c.config \in Blocks \cup {None}
    /\ c.subnets \subseteq [block : Blocks, zone : Zones, private : BOOLEAN]

VARIABLES
  cluster,  \* the cluster; does not change
  plan,     \* the block of the planned network
  subnets,  \* the subnets in the cluster's VPC
  down,     \* the zones that are not available
  group,    \* the subnets of each subnet group
  sg,       \* the security group: "none", "closed", "open"
  w,        \* the two workers: next call and local variables
  trouble

cloud == <<subnets, down, group, sg>>
vars == <<cluster, plan, cloud, w, trouble>>
----------------------------------------------------------------------------
Subnets == [block : CIDRs, zone : Zones, private : BOOLEAN]

Labels == {"groups", "subnets", "zones", "create", "tag", "group", "sg", "sg_create", "sg_open"}

\* A worker that has nothing in hand: privs are the private subnets it knows,
\* todo the zones that still want one, cands the blocks left to try, the last
\* one first, and new the
\* subnet it has just created.
Start == [pc |-> "groups", privs |-> {}, todo |-> {}, cands |-> <<>>, new |-> {}]

TypeOK ==
  /\ plan \in CIDRs \cup {None, Error, [ip |-> None.ip, mask |-> GCPMask]}
  /\ subnets \subseteq Subnets
  /\ down \subseteq Zones
  /\ \A k \in Kinds : group[k] \subseteq Subnets
  /\ sg \in {"none", "closed", "open"}
  /\ \A k \in Kinds :
       /\ w[k].pc \in Labels
       /\ w[k].privs \subseteq Subnets /\ w[k].new \subseteq Subnets
       /\ w[k].todo \subseteq Zones /\ w[k].cands \in Seq(CIDRs)
  /\ trouble \in 0 .. MaxTrouble

Init ==
  /\ cluster \in Clusters
  /\ plan = None
  /\ subnets = cluster.subnets
  /\ down = {}
  /\ group = [k \in Kinds |-> {}]
  /\ sg = "none"
  /\ w = [k \in Kinds |-> Start]
  /\ trouble = 0

At(k, l) == cluster.mode = "bundled" /\ w[k].pc = l
Goto(k, l) == w' = [w EXCEPT ![k] = IF l = "groups" THEN Start ELSE [@ EXCEPT !.pc = l]]

\* The reconcile goes on at l, or ends in an error and is requeued.
Trouble == trouble < MaxTrouble /\ trouble' = trouble + 1
Reply(k, new) ==
  \/ w' = [w EXCEPT ![k] = new] /\ UNCHANGED trouble
  \/ w' = [w EXCEPT ![k] = Start] /\ Trouble

\* A call fails without effect, or the operator is restarted.
CallFails(k) ==
  /\ cluster.mode = "bundled"
  /\ Goto(k, "groups") /\ Trouble
  /\ UNCHANGED <<cluster, plan, cloud>>

ZoneChanges ==
  /\ cluster.mode = "bundled"
  /\ \/ \E z \in Zones \ down : down' = down \cup {z} /\ Trouble
     \/ \E z \in down : down' = down \ {z} /\ UNCHANGED trouble
  /\ UNCHANGED <<cluster, plan, subnets, group, sg, w>>
----------------------------------------------------------------------------
(* configureRDSVpc and configureElasticacheVpc: a group that exists is     *)
(* taken as it is.                                                         *)

DescribeSubnetGroups(k) ==
  /\ At(k, "groups")
  /\ Goto(k, IF group[k] # {} THEN "sg" ELSE "subnets")
  /\ UNCHANGED <<cluster, plan, cloud, trouble>>

\* GetPrivateSubnetIDS: the VPC's subnets with the private tag.
GetVPCSubnets(k) ==
  /\ At(k, "subnets")
  /\ w' = [w EXCEPT ![k].pc = "zones", ![k].privs = {s \in subnets : s.private}]
  /\ UNCHANGED <<cluster, plan, cloud, trouble>>

\* On to the next zone without a private subnet, with all candidates, or to
\* the subnet group.
NextZone(todo, privs) ==
  [Start EXCEPT !.pc = IF todo = {} THEN "group" ELSE "create", !.todo = todo, !.privs = privs,
                !.cands = IF todo = {} THEN <<>> ELSE buildSubnetAddress(cluster.vpc)]

privateSubnetExists(privs, zone) ==
  \E s \in privs : s.zone = zone /\ zone \notin down

\* Seeded fault: one private subnet in any zone is taken to be enough.
getAZs_AnyZone(k) ==
  /\ At(k, "zones")
  /\ LET todo == {z \in Zones : w[k].privs = {}}
     IN  w' = [w EXCEPT ![k] = NextZone(todo, w[k].privs)]
  /\ UNCHANGED <<cluster, plan, cloud, trouble>>

\* Seeded fault: the subnets that exist are not looked at.
getAZs_AllZones(k) ==
  /\ At(k, "zones")
  /\ w' = [w EXCEPT ![k] = NextZone(Zones, w[k].privs)]
  /\ UNCHANGED <<cluster, plan, cloud, trouble>>

\* The zones without a private subnet; one is created in each of them.
getAZs(k) ==
  /\ At(k, "zones")
  /\ LET todo == {z \in Zones : ~privateSubnetExists(w[k].privs, z)}
     IN  w' = [w EXCEPT ![k] = NextZone(todo, w[k].privs)]
  /\ UNCHANGED <<cluster, plan, cloud, trouble>>

Conflicts(b) == \E s \in subnets : Overlaps(s.block, b)

\* The code tries the candidates one after the other: a conflict makes it go
\* on to the next one, and when none is left the reconcile fails.
createPrivateSubnet(k) ==
  /\ At(k, "create")
  /\ LET cands == w[k].cands
         n     == Len(cands)
     IN  \/ /\ n = 0
            /\ Goto(k, "groups") /\ UNCHANGED <<subnets, trouble>>
         \/ /\ n > 0 /\ Conflicts(cands[n])
            /\ w' = [w EXCEPT ![k].cands = SubSeq(cands, 1, n - 1)] /\ UNCHANGED <<subnets, trouble>>
         \/ /\ n > 0 /\ ~Conflicts(cands[n])
            /\ \E z \in w[k].todo :
                 LET s == [block |-> cands[n], zone |-> z, private |-> FALSE]
                 IN  /\ subnets' = subnets \cup {s}
                     /\ Reply(k, [w[k] EXCEPT !.pc = "tag", !.cands = <<>>, !.new = {s}])
  /\ UNCHANGED <<cluster, plan, down, group, sg>>

tagPrivateSubnet(k) ==
  /\ At(k, "tag")
  /\ LET tagged == {[s EXCEPT !.private = TRUE] : s \in w[k].new}
         todo   == w[k].todo \ {s.zone : s \in tagged}
     IN  /\ subnets' = (subnets \ w[k].new) \cup tagged
         /\ Reply(k, NextZone(todo, w[k].privs \cup tagged))
  /\ UNCHANGED <<cluster, plan, down, group, sg>>

\* CreateDBSubnetGroup, CreateCacheSubnetGroup.
CreateSubnetGroup(k) ==
  /\ At(k, "group")
  /\ group' = [group EXCEPT ![k] = w[k].privs]
  /\ Reply(k, [Start EXCEPT !.pc = "sg"])
  /\ UNCHANGED <<cluster, plan, subnets, down, sg>>
----------------------------------------------------------------------------
(* configureSecurityGroup.  A group that was just created is opened by a   *)
(* later reconcile.                                                        *)

DescribeSecurityGroups(k) ==
  /\ At(k, "sg")
  /\ Goto(k, CASE sg = "none" -> "sg_create" [] sg = "closed" -> "sg_open" [] OTHER -> "groups")
  /\ UNCHANGED <<cluster, plan, cloud, trouble>>

\* Refused if the other worker was faster.
CreateSecurityGroup(k) ==
  /\ At(k, "sg_create")
  /\ sg' = IF sg = "none" THEN "closed" ELSE sg
  /\ Goto(k, "groups")
  /\ UNCHANGED <<cluster, plan, subnets, down, group, trouble>>

\* Seeded fault: the rule is only described, never authorized.
AuthorizeIngress_NoEffect(k) ==
  /\ At(k, "sg_open")
  /\ Goto(k, "groups")
  /\ UNCHANGED <<cluster, plan, cloud, trouble>>

AuthorizeIngress(k) ==
  /\ At(k, "sg_open")
  /\ sg' = "open"
  /\ Goto(k, "groups")
  /\ UNCHANGED <<cluster, plan, subnets, down, group, trouble>>
----------------------------------------------------------------------------
(* ReconcileNetworkProviderConfig and the validation that follows it in    *)
(* CreateNetwork and CreateNetworkIpRange.                                 *)

ReconcileNetworkProviderConfig ==
  IF cluster.config # None THEN cluster.config
  ELSE IF cluster.mode = "gcp" THEN [ip |-> None.ip, mask |-> GCPMask]
  ELSE getNonOverlappingDefaultCIDR(cluster.vpc, cluster.pods, cluster.services)

PlanNetwork ==
  /\ cluster.mode # "bundled"
  /\ LET b  == ReconcileNetworkProviderConfig
         ok == IF cluster.mode = "gcp"
               THEN validateCidrBlock(b, {s.block : s \in cluster.subnets})
               ELSE b # Error /\ validateStandaloneCidrBlock(b, cluster.vpc)
     IN  plan' = IF ok THEN b ELSE Error
  /\ UNCHANGED <<cluster, cloud, w, trouble>>

Worker(k) ==
  \/ DescribeSubnetGroups(k) \/ GetVPCSubnets(k) \/ getAZs(k) \/ createPrivateSubnet(k)
  \/ tagPrivateSubnet(k) \/ CreateSubnetGroup(k) \/ DescribeSecurityGroups(k)
  \/ CreateSecurityGroup(k) \/ AuthorizeIngress(k)

Next == (\E k \in Kinds : Worker(k) \/ CallFails(k)) \/ ZoneChanges \/ PlanNetwork

Spec == Init /\ [][Next]_vars

\* Both controllers requeue their CRs; troubles are finite in number.
FairSpec == Spec /\ \A k \in Kinds : WF_vars(Worker(k))
----------------------------------------------------------------------------
(* Properties.                                                             *)

Span(b) == b.ip .. b.ip + Size(b.mask) - 1
Disjoint(a, b) == Span(a) \cap Span(b) = {}

\* A block that was planned and validated shares no address with the network
\* it will be connected to: the cluster's VPC on AWS, all of its subnets on
\* GCP.  A default also keeps clear of the pod and the service network
\* (aws/cluster_network_provider.go:1605-1702, 1778-1791,
\* gcp/cluster_network_provider.go:437-452).  Of several pod or service
\* networks the code looks at one, so each is taken to have one entry here.
PlanClear ==
  plan \in CIDRs =>
    CASE cluster.mode = "gcp" -> \A s \in cluster.subnets : Disjoint(s.block, plan)
      [] cluster.mode = "standalone" ->
           /\ Disjoint(cluster.vpc, plan)
           /\ cluster.config = None =>
                \A nets \in {cluster.pods, cluster.services} :
                  Len(nets) = 1 => Disjoint(nets[1], plan)

\* For SubnetsExact: whatever block passes the validation can be made into the two subnets of a
\* standalone VPC: they fill the block and do not meet, although the size
\* limits of the validation and of the split are constants of two files
\* (aws/cluster_network_provider.go:1042-1058, 1755; cluster_vpc.go:49).
Halved ==
  cluster.mode = "standalone" /\ plan \in CIDRs =>
    LET nets == StandaloneSubnets(plan)
    IN  /\ Len(nets) = 2
        /\ Disjoint(nets[1], nets[2])
        /\ Span(nets[1]) \cup Span(nets[2]) = Span(plan)

\* The blocks of subnet size in the VPC, from the first to the last.
SubnetBlocks ==
  LET n == IF cluster.vpc.mask >= SubnetMask THEN 0
           ELSE Size(cluster.vpc.mask) \div Size(SubnetMask)
  IN  [i \in 1 .. n |->
         [ip |-> cluster.vpc.ip + (i - 1) * Size(SubnetMask), mask |-> SubnetMask]]

\* A planned block falls into two halves (Halved), and a controller looking for
\* a place tries the subnet-sized blocks of the VPC, each once, from the last
\* to the first, also in a VPC that ends with the address space, and passes
\* over none that is free (aws/cluster_vpc.go:222-258, 318-401).  Also checks
\* the types.
SubnetsExact ==
  /\ TypeOK
  /\ Halved
  /\ \A k \in Kinds : w[k].pc = "create" =>
       LET n == Len(w[k].cands)
       IN  /\ w[k].cands = SubSeq(SubnetBlocks, 1, n)
           /\ \A i \in n + 1 .. Len(SubnetBlocks) : Conflicts(SubnetBlocks[i])

\* aws/cluster_vpc.go:8-16: a multi-AZ instance needs a private subnet in every
\* zone.  A subnet group, once made, is never changed, so it must span all
\* zones at once, whatever failed before and whatever the other controller
\* did in the meantime.
GroupSpansZones ==
  \A k \in Kinds : group[k] # {} =>
    /\ \A z \in Zones : \E s \in group[k] : s.zone = z
    /\ \A s \in group[k] : s.private /\ s \in subnets

\* aws/cluster_vpc.go:18-19: "If an OpenShift cluster is already multi-AZ [...]
\* no additional private sub-networks should be created".  While no call fails
\* and all zones are up, a zone that has a private subnet gets none, and
\* another zone at most one from each controller.
NoNeedlessSubnet ==
  trouble = 0 =>
    \A z \in Zones :
      LET had   == \E s \in cluster.subnets : s.private /\ s.zone = z
          added == {s \in subnets \ cluster.subnets : s.zone = z}
      IN  Cardinality(added) <= IF had THEN 0 ELSE Cardinality(Kinds)

Full == \A i \in DOMAIN SubnetBlocks : Conflicts(SubnetBlocks[i])

\* Both subnet groups come to exist and the security group is opened, unless
\* the VPC has no room left for a subnet; the two controllers, which lose
\* races for the same block and the same security group, do not starve each
\* other (aws/cluster_vpc.go:54-124, 222-258).
GroupsReady ==
  cluster.mode = "bundled" ~> Full \/ (sg = "open" /\ \A k \in Kinds : group[k] # {})
============================================================================
