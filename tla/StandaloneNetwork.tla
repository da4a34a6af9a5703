------------------------- MODULE StandaloneNetwork -------------------------
(***************************************************************************)
(* The network that all Postgres and Redis CRs of a cluster share on AWS:  *)
(* a VPC of its own with two subnets, an RDS and an ElastiCache subnet     *)
(* group, a security group, a peering with the cluster's VPC, and a route  *)
(* at either end (pkg/providers/aws/cluster_network_provider.go).  Every   *)
(* reconcile of a live CR creates what is missing of it; the reconcile     *)
(* that deletes the last CR takes it down.                                 *)
(*                                                                         *)
(* The Postgres and the Redis controller run at the same time, one worker  *)
(* each, and nothing but the cloud API orders their calls.  Each worker is *)
(* a process here, with one action per call that changes the network.      *)
(* What a CR's own instance goes through is the subject of PostgresRDS;    *)
(* here an instance only exists, and occupies a VPC, or does not.          *)
(***************************************************************************)
EXTENDS Naturals, FiniteSets

CONSTANTS
  Resources,  \* the CRs, each with a controller's worker of its own
  Service,    \* Service[r]: "rds" for a Postgres CR, "cache" for a Redis CR
  Vpcs,       \* VPC ids; as many as the AWS account's limit allows
  NoVpc,
  Races,      \* reconciles of two CRs may overlap, and a CR may be deleted before
              \* its first reconcile
  MaxFaults   \* bound on failed calls, lost answers and crashes

Groups == {"rds", "cache"}

ASSUME VpcsAssumption == NoVpc \notin Vpcs /\ IsFiniteSet(Vpcs)
ASSUME ServiceAssumption == Service \in [Resources -> Groups]
ASSUME BoundsAssumption == Races \in BOOLEAN /\ MaxFaults \in Nat

VARIABLES
  cr,      \* the CRs: "none", "new", "held" (with finalizer), "deleting"
  w,       \* the workers: next call and local variables
  net,     \* the VPCs with what they contain
  group,   \* the VPC in which each subnet group (there is one per name) lies
  croute,  \* the route to the standalone CIDR in the cluster's route tables
  inst,    \* the instance of each CR
  faults

vars == <<cr, w, net, group, croute, inst, faults>>
----------------------------------------------------------------------------
\* The halves of the VPC's CIDR block, one subnet for each.
Halves == {"low", "high"}
MaybeVpc == Vpcs \cup {NoVpc}

\* A route whose peering has been deleted stays in its table, as "stale".
Routes == {"none", "live", "stale"}

CreateSteps ==
  {"find", "mkvpc", "tag", "list", "subnet", "cache", "peer", "accept", "sg",
   "authorize", "croute", "route", "inst"}
TeardownSteps ==
  {"d_sg", "d_route", "d_peer", "d_list", "d_subnet", "d_cache", "d_vpc"}
DeleteSteps == {"last", "d_inst", "d_net", "d_fin"} \cup TeardownSteps

Idle == [pc |-> "idle", vpc |-> NoVpc, subs |-> {}, last |-> FALSE, peered |-> FALSE]
NoNet == [up |-> FALSE, tagged |-> FALSE, subs |-> {}, sg |-> "none",
          peer |-> "none", route |-> "none"]
NewNet == [NoNet EXCEPT !.up = TRUE]
NoInst == [at |-> NoVpc, sg |-> FALSE, going |-> FALSE]

TypeOK ==
  /\ cr \in [Resources -> {"none", "new", "held", "deleting"}]
  /\ w \in [Resources ->
              [pc : {"idle"} \cup CreateSteps \cup DeleteSteps, vpc : MaybeVpc,
               subs : SUBSET Halves, last : BOOLEAN, peered : BOOLEAN]]
  /\ net \in [Vpcs ->
                [up : BOOLEAN, tagged : BOOLEAN, subs : SUBSET Halves,
                 sg : {"none", "closed", "open"},
                 peer : {"none", "initiating", "pending", "active"}, route : Routes]]
  /\ group \in [Groups -> MaybeVpc]
  /\ croute \in [to : MaybeVpc, state : Routes]
  /\ inst \in [Resources -> [at : MaybeVpc, sg : BOOLEAN, going : BOOLEAN]]
  /\ faults \in 0 .. MaxFaults

Init ==
  /\ cr = [r \in Resources |-> "none"]
  /\ w = [r \in Resources |-> Idle]
  /\ net = [v \in Vpcs |-> NoNet]
  /\ group = [g \in Groups |-> NoVpc]
  /\ croute = [to |-> NoVpc, state |-> "none"]
  /\ inst = [r \in Resources |-> NoInst]
  /\ faults = 0
----------------------------------------------------------------------------
cloud == <<net, group, croute, inst>>

Live == {v \in Vpcs : net[v].up}
Secured == {v \in Live : net[v].sg # "none"}

\* Ids for a new VPC: AWS never gives out an id again that is still in use.
Free ==
  {v \in Vpcs \ Live : /\ \A r \in Resources : w[r].vpc # v
                       /\ \A g \in Groups : group[g] # v}

\* The reconcile ends; its locals die.  It is requeued.
Return(r) == w' = [w EXCEPT ![r] = Idle] /\ UNCHANGED faults
Goto(r, l) == w' = [w EXCEPT ![r].pc = l] /\ UNCHANGED faults

Fault == faults < MaxFaults /\ faults' = faults + 1

\* The call took effect; its answer arrives, or is lost and ends the reconcile.
Reply(r, l) == Goto(r, l) \/ (Fault /\ w' = [w EXCEPT ![r] = Idle])

\* The worker's VPC with new contents.
InVpc(r, n) == net' = [net EXCEPT ![w[r].vpc] = n]
Mine(r) == net[w[r].vpc]

\* Get of the CR; the finalizer is set before anything is created for it.
Reconcile(r) ==
  /\ w[r].pc = "idle"
  /\ cr[r] # "none"
  /\ Races \/ \A q \in Resources : w[q].pc = "idle"
  /\ Goto(r, IF cr[r] = "deleting" THEN "last" ELSE "find")
  /\ cr' = [cr EXCEPT ![r] = IF @ = "new" THEN "held" ELSE @]
  /\ UNCHANGED cloud
----------------------------------------------------------------------------
(* CreateNetwork.                                                          *)

\* Seeded fault: the VPC is looked up by a tag that it is given too late.
GetStandaloneVpc_UntaggedMissed(r) ==
  /\ w[r].pc = "find"
  /\ \/ {v \in Live : net[v].tagged} = {} /\ Goto(r, "mkvpc")
     \/ \E v \in {v \in Live : net[v].tagged} :
          w' = [w EXCEPT ![r].pc = "tag", ![r].vpc = v] /\ UNCHANGED faults
  /\ UNCHANGED <<cr, cloud>>

\* getStandaloneVpc: of several VPCs with the owner tag it takes the last one
\* that DescribeVpcs lists, in an order that AWS does not define.
GetStandaloneVpc(r) ==
  /\ w[r].pc = "find"
  /\ \/ Live = {} /\ Goto(r, "mkvpc")
     \/ \E v \in Live :
          w' = [w EXCEPT ![r].pc = "tag", ![r].vpc = v] /\ UNCHANGED faults
  /\ UNCHANGED <<cr, cloud>>

\* A new VPC bears the owner tag from the start.  Its subnets and groups are
\* left to the next reconcile.
CreateVpc(r) ==
  /\ w[r].pc = "mkvpc"
  /\ IF Free = {}
     THEN Return(r) /\ UNCHANGED net          \* VpcLimitExceeded
     ELSE \E v \in Free :
            /\ net' = [net EXCEPT ![v] = NewNet]
            /\ \/ w' = [w EXCEPT ![r].pc = "peer", ![r].vpc = v] /\ UNCHANGED faults
               \/ Fault /\ w' = [w EXCEPT ![r] = Idle]
  /\ UNCHANGED <<cr, group, croute, inst>>

\* WaitUntilVpcExists times out: DeleteVpc may work or not, and the empty
\* Network that is returned is dereferenced, which ends the whole process.
VpcWaitTimesOut(r) ==
  /\ w[r].pc = "mkvpc"
  /\ Fault
  /\ \E v \in Free : net' \in {net, [net EXCEPT ![v] = NewNet]}
  /\ w' = [q \in Resources |-> Idle]
  /\ UNCHANGED <<cr, group, croute, inst>>

TagRouteTable(r) ==
  /\ w[r].pc = "tag"
  /\ Mine(r).up
  /\ InVpc(r, [Mine(r) EXCEPT !.tagged = TRUE])
  /\ Reply(r, "list")
  /\ UNCHANGED <<cr, group, croute, inst>>

ListSubnets(r) ==
  /\ w[r].pc = "list"
  /\ Mine(r).up
  /\ w' = [w EXCEPT ![r].pc = "subnet", ![r].subs = Mine(r).subs]
  /\ UNCHANGED <<cr, cloud, faults>>

\* One CreateSubnet for each half that the listing did not show.  The error
\* InvalidSubnet.Conflict of a half that has appeared since is logged as
\* expected and then returned like any other.
CreateSubnet(r) ==
  /\ w[r].pc = "subnet"
  /\ Mine(r).up
  /\ \E h \in Halves \ w[r].subs :
       IF h \in Mine(r).subs
       THEN Return(r) /\ UNCHANGED net
       ELSE /\ InVpc(r, [Mine(r) EXCEPT !.subs = @ \cup {h}])
            /\ \/ w' = [w EXCEPT ![r].subs = @ \cup {h}] /\ UNCHANGED faults
               \/ Fault /\ w' = [w EXCEPT ![r] = Idle]
  /\ UNCHANGED <<cr, group, croute, inst>>

\* reconcileRDSVpcConfiguration, then reconcileElasticacheVPCConfiguration: a
\* group can be created in, and modified to, existing subnets of one VPC.
ReconcileSubnetGroup(r, g) ==
  /\ \/ g = "rds" /\ w[r].pc = "subnet" /\ w[r].subs = Halves
     \/ g = "cache" /\ w[r].pc = "cache"
  /\ Mine(r).up
  /\ IF Mine(r).subs = Halves /\ group[g] \in {NoVpc, w[r].vpc}
     THEN /\ group' = [group EXCEPT ![g] = w[r].vpc]
          /\ Reply(r, IF g = "rds" THEN "cache" ELSE "peer")
     ELSE Return(r) /\ UNCHANGED group
  /\ UNCHANGED <<cr, net, croute, inst>>
----------------------------------------------------------------------------
(* CreateNetworkPeering and CreateNetworkConnection.                       *)

\* Seeded fault: an active peering is overlooked and requested again.
CreatePeering_IgnoresActive(r) ==
  /\ w[r].pc = "peer"
  /\ Mine(r).up
  /\ \E s \in IF Mine(r).peer \in {"none", "active"} THEN {"initiating", "pending"} ELSE {Mine(r).peer} :
       /\ InVpc(r, [Mine(r) EXCEPT !.peer = s])
       /\ Reply(r, IF s = "pending" THEN "accept" ELSE "sg")
  /\ UNCHANGED <<cr, group, croute, inst>>

\* Seeded fault: only a peering that was requested just now is accepted.
CreatePeering_LeavesPending(r) ==
  /\ w[r].pc = "peer"
  /\ Mine(r).up
  /\ \E s \in IF Mine(r).peer = "none" THEN {"initiating", "pending"} ELSE {Mine(r).peer} :
       /\ InVpc(r, [Mine(r) EXCEPT !.peer = s])
       /\ Reply(r, IF Mine(r).peer = "none" /\ s = "pending" THEN "accept" ELSE "sg")
  /\ UNCHANGED <<cr, group, croute, inst>>

\* A peering that has just been requested can answer "initiating-request",
\* and is then accepted by a later reconcile.
CreatePeering(r) ==
  /\ w[r].pc = "peer"
  /\ Mine(r).up
  /\ \E s \in IF Mine(r).peer = "none" THEN {"initiating", "pending"} ELSE {Mine(r).peer} :
       /\ InVpc(r, [Mine(r) EXCEPT !.peer = s])
       /\ Reply(r, IF s = "pending" THEN "accept" ELSE "sg")
  /\ UNCHANGED <<cr, group, croute, inst>>

AcceptPeering(r) ==
  /\ w[r].pc = "accept"
  /\ Mine(r).up
  /\ IF Mine(r).peer \in {"pending", "active"}
     THEN InVpc(r, [Mine(r) EXCEPT !.peer = "active"]) /\ Reply(r, "sg")
     ELSE Return(r) /\ UNCHANGED net
  /\ UNCHANGED <<cr, group, croute, inst>>

\* The security group is looked up by name, in whichever VPC it is; a missing
\* one is created in the VPC that a new getStandaloneVpc returns.
ReconcileSecurityGroup(r) ==
  /\ w[r].pc = "sg"
  /\ \/ /\ Secured # {}
        /\ \E v \in Secured : Goto(r, IF net[v].sg = "open" THEN "croute" ELSE "authorize")
        /\ UNCHANGED net
     \/ /\ Secured = {}
        /\ \E v \in Live : net' = [net EXCEPT ![v].sg = "closed"]
        /\ Reply(r, "authorize")
     \/ Live = {} /\ Return(r) /\ UNCHANGED net
  /\ UNCHANGED <<cr, group, croute, inst>>

\* A group that has gone, or been opened, since the lookup is an error.
AuthorizeIngress(r) ==
  /\ w[r].pc = "authorize"
  /\ IF \A v \in Secured : net[v].sg = "open"
     THEN Return(r) /\ UNCHANGED net
     ELSE /\ \E v \in Secured : net' = [net EXCEPT ![v].sg = "open"]
          /\ Reply(r, "croute")
  /\ UNCHANGED <<cr, group, croute, inst>>

\* The route to the standalone CIDR.  routeExists compares destination and
\* peering; AWS refuses a second route to the same destination, so one that
\* leads to another peering (RouteAlreadyExists) is an error.
CreateClusterRoute(r) ==
  /\ w[r].pc = "croute"
  /\ Mine(r).up
  /\ IF Mine(r).peer # "none" /\ (croute.state = "none" \/ croute = [to |-> w[r].vpc, state |-> "live"])
     THEN croute' = [to |-> w[r].vpc, state |-> "live"] /\ Reply(r, "route")
     ELSE Return(r) /\ UNCHANGED croute
  /\ UNCHANGED <<cr, net, group, inst>>

\* The way back, in every route table with the owner tag; none is an error,
\* and AWS refuses a table of another VPC than the peering's.
CreateRoute(r) ==
  /\ w[r].pc = "route"
  /\ Mine(r).up
  /\ IF /\ {v \in Live : net[v].tagged} = {w[r].vpc}
        /\ Mine(r).peer # "none"
        /\ Mine(r).route # "stale"
     THEN InVpc(r, [Mine(r) EXCEPT !.route = "live"]) /\ Reply(r, "inst")
     ELSE Return(r) /\ UNCHANGED net
  /\ UNCHANGED <<cr, group, croute, inst>>

\* The VPC that the worker has in hand has been deleted by another worker.
VpcGone(r) ==
  /\ w[r].pc \in CreateSteps
  /\ w[r].vpc # NoVpc
  /\ ~Mine(r).up
  /\ Return(r)
  /\ UNCHANGED <<cr, cloud>>

\* The instance, if there is none yet: in the VPC of its subnet group, with
\* the security group if there is one (else with the VPC's default group).
CreateInstance(r) ==
  LET g == group[Service[r]] IN
  /\ w[r].pc = "inst"
  /\ IF inst[r] = NoInst /\ g \in Live /\ net[g].subs # {} /\ Secured \subseteq {g}
     THEN inst' = [inst EXCEPT ![r] = [at |-> g, sg |-> g \in Secured, going |-> FALSE]]
     ELSE UNCHANGED inst
  /\ w' = [w EXCEPT ![r] = Idle]
  /\ UNCHANGED <<cr, net, group, croute, faults>>
----------------------------------------------------------------------------
(* DeletePostgres and DeleteRedis.                                         *)

\* Seeded fault: a CR that is being deleted is not counted.
IsLastResource_IgnoresDeleting(r) ==
  /\ w[r].pc = "last"
  /\ w' = [w EXCEPT ![r].pc = "d_inst",
                    ![r].last = \A q \in Resources \ {r} : cr[q] \in {"none", "deleting"}]
  /\ UNCHANGED <<cr, cloud, faults>>

\* Seeded fault: no CR is ever the last one.
IsLastResource_Never(r) ==
  /\ w[r].pc = "last"
  /\ w' = [w EXCEPT ![r].pc = "d_inst", ![r].last = FALSE]
  /\ UNCHANGED <<cr, cloud, faults>>

\* Read once, before the instances are listed, and used after all of that.
IsLastResource(r) ==
  /\ w[r].pc = "last"
  /\ w' = [w EXCEPT ![r].pc = "d_inst",
                    ![r].last = \A q \in Resources \ {r} : cr[q] = "none"]
  /\ UNCHANGED <<cr, cloud, faults>>

\* An instance is deleted, or waited for; then the network's turn comes.
DeleteInstance(r) ==
  /\ w[r].pc = "d_inst"
  /\ IF inst[r] # NoInst
     THEN inst' = [inst EXCEPT ![r].going = TRUE] /\ Return(r)
     ELSE Goto(r, IF w[r].last THEN "d_net" ELSE "d_fin") /\ UNCHANGED inst
  /\ UNCHANGED <<cr, net, group, croute>>

\* getStandaloneVpc and GetClusterNetworkPeering.
GetPeering(r) ==
  /\ w[r].pc = "d_net"
  /\ \/ Live = {} /\ Goto(r, "d_fin")
     \/ \E v \in Live :
          /\ w' = [w EXCEPT ![r].pc = "d_sg", ![r].vpc = v, ![r].peered = net[v].peer # "none"]
          /\ UNCHANGED faults
  /\ UNCHANGED <<cr, cloud>>

\* AWS refuses to delete a security group that an instance uses.
DeleteSecurityGroup(r) ==
  /\ w[r].pc = "d_sg"
  /\ \/ Secured = {} /\ Goto(r, "d_route") /\ UNCHANGED net
     \/ \E v \in Secured :
          IF \E q \in Resources : inst[q].at = v /\ inst[q].sg
          THEN Return(r) /\ UNCHANGED net
          ELSE net' = [net EXCEPT ![v].sg = "none"] /\ Reply(r, "d_route")
  /\ UNCHANGED <<cr, group, croute, inst>>

\* Without a peering the routes cannot be told, and the reconcile fails.
DeleteClusterRoute(r) ==
  /\ w[r].pc = "d_route"
  /\ IF ~w[r].peered
     THEN Return(r) /\ UNCHANGED croute
     ELSE /\ croute' = IF croute = [to |-> w[r].vpc, state |-> "live"]
                       THEN [to |-> NoVpc, state |-> "none"] ELSE croute
          /\ Reply(r, "d_peer")
  /\ UNCHANGED <<cr, net, group, inst>>

\* The cluster's route over the peering of v stays in its table, as does the
\* standalone one, and leads nowhere.
StaleClusterRoute(v) ==
  croute' = IF croute.to = v THEN [to |-> NoVpc, state |-> "stale"] ELSE croute

DeletePeering(r) ==
  /\ w[r].pc = "d_peer"
  /\ InVpc(r, [Mine(r) EXCEPT !.peer = "none",
                              !.route = IF @ = "live" THEN "stale" ELSE @])
  /\ StaleClusterRoute(w[r].vpc)
  /\ Reply(r, "d_list")
  /\ UNCHANGED <<cr, group, inst>>

\* Seeded fault: the listing of the VPC's subnets comes back empty.
ListForDelete_NoSubnets(r) ==
  /\ w[r].pc = "d_list"
  /\ IF Live = {}
     THEN Goto(r, "d_fin")
     ELSE /\ \E v \in Live : w' = [w EXCEPT ![r].pc = "d_subnet", ![r].vpc = v]
          /\ UNCHANGED faults
  /\ UNCHANGED <<cr, cloud>>

\* DeleteNetwork looks the VPC up again.
ListForDelete(r) ==
  /\ w[r].pc = "d_list"
  /\ IF Live = {}
     THEN Goto(r, "d_fin")
     ELSE \E v \in Live :
            /\ w' = [w EXCEPT ![r].pc = "d_subnet", ![r].vpc = v, ![r].subs = net[v].subs]
            /\ UNCHANGED faults
  /\ UNCHANGED <<cr, cloud>>

\* AWS refuses to delete a subnet with an instance in it.
DeleteSubnet(r) ==
  /\ w[r].pc = "d_subnet"
  /\ \E h \in w[r].subs :
       IF \E q \in Resources : inst[q].at = w[r].vpc
       THEN Return(r) /\ UNCHANGED net
       ELSE /\ InVpc(r, [Mine(r) EXCEPT !.subs = @ \ {h}])
            /\ \/ w' = [w EXCEPT ![r].subs = @ \ {h}] /\ UNCHANGED faults
               \/ Fault /\ w' = [w EXCEPT ![r] = Idle]
  /\ UNCHANGED <<cr, group, croute, inst>>

\* By name, whichever VPC it is in; AWS refuses if an instance uses it.
DeleteSubnetGroup(r, g) ==
  /\ \/ g = "rds" /\ w[r].pc = "d_subnet" /\ w[r].subs = {}
     \/ g = "cache" /\ w[r].pc = "d_cache"
  /\ IF \E q \in Resources : Service[q] = g /\ inst[q] # NoInst
     THEN Return(r) /\ UNCHANGED group
     ELSE /\ group' = [group EXCEPT ![g] = NoVpc]
          /\ Reply(r, IF g = "rds" THEN "d_cache" ELSE "d_vpc")
  /\ UNCHANGED <<cr, net, croute, inst>>

\* AWS refuses to delete a VPC that is not empty.
DeleteVpc(r) ==
  /\ w[r].pc = "d_vpc"
  /\ IF Mine(r).subs # {} \/ Mine(r).sg # "none"
     THEN Return(r) /\ UNCHANGED <<net, croute>>
     ELSE /\ InVpc(r, NoNet)
          /\ StaleClusterRoute(w[r].vpc)
          /\ Reply(r, "d_fin")
  /\ UNCHANGED <<cr, group, inst>>

RemoveFinalizer(r) ==
  /\ w[r].pc = "d_fin"
  /\ cr' = [cr EXCEPT ![r] = "none"]
  /\ w' = [w EXCEPT ![r] = Idle]
  /\ UNCHANGED <<cloud, faults>>
----------------------------------------------------------------------------
(* The environment.                                                        *)

CallFails(r) ==
  /\ w[r].pc # "idle"
  /\ Fault
  /\ w' = [w EXCEPT ![r] = Idle]
  /\ UNCHANGED <<cr, cloud>>

Crash ==
  /\ \E r \in Resources : w[r].pc # "idle"
  /\ Fault
  /\ w' = [r \in Resources |-> Idle]
  /\ UNCHANGED <<cr, cloud>>

UserCreates(r) ==
  /\ cr[r] = "none"
  /\ cr' = [cr EXCEPT ![r] = "new"]
  /\ UNCHANGED <<w, cloud, faults>>

\* A CR without finalizer is dropped at once.
UserDeletes(r) ==
  /\ \/ cr[r] = "new" /\ Races /\ cr' = [cr EXCEPT ![r] = "none"]
     \/ cr[r] = "held" /\ cr' = [cr EXCEPT ![r] = "deleting"]
  /\ UNCHANGED <<w, cloud, faults>>

InstanceGoes(r) ==
  /\ inst[r].going
  /\ inst' = [inst EXCEPT ![r] = NoInst]
  /\ UNCHANGED <<cr, w, net, group, croute, faults>>

PeeringProgress(v) ==
  /\ net[v].peer = "initiating"
  /\ net' = [net EXCEPT ![v].peer = "pending"]
  /\ UNCHANGED <<cr, w, group, croute, inst, faults>>
----------------------------------------------------------------------------
Create(r) ==
  \/ GetStandaloneVpc(r) \/ CreateVpc(r) \/ TagRouteTable(r) \/ ListSubnets(r)
  \/ CreateSubnet(r) \/ \E g \in Groups : ReconcileSubnetGroup(r, g)
  \/ CreatePeering(r) \/ AcceptPeering(r) \/ ReconcileSecurityGroup(r)
  \/ AuthorizeIngress(r) \/ CreateClusterRoute(r) \/ CreateRoute(r)
  \/ VpcGone(r) \/ CreateInstance(r)

Delete(r) ==
  \/ IsLastResource(r) \/ DeleteInstance(r) \/ GetPeering(r)
  \/ DeleteSecurityGroup(r) \/ DeleteClusterRoute(r) \/ DeletePeering(r)
  \/ ListForDelete(r) \/ DeleteSubnet(r)
  \/ \E g \in Groups : DeleteSubnetGroup(r, g)
  \/ DeleteVpc(r) \/ RemoveFinalizer(r)

Worker(r) == Reconcile(r) \/ Create(r) \/ Delete(r)

Next ==
  \/ \E r \in Resources :
       \/ Worker(r) \/ VpcWaitTimesOut(r) \/ CallFails(r)
       \/ UserCreates(r) \/ UserDeletes(r) \/ InstanceGoes(r)
  \/ \E v \in Vpcs : PeeringProgress(v)
  \/ Crash

Spec == Init /\ [][Next]_vars

\* Reconciles are requeued and the queues are fair; AWS finishes what it has
\* started.  Faults end because there are at most MaxFaults of them.
Fairness ==
  /\ \A r \in Resources : SF_vars(Reconcile(r)) /\ WF_vars(Create(r) \/ Delete(r))
  /\ \A r \in Resources : WF_vars(InstanceGoes(r))
  /\ \A v \in Vpcs : WF_vars(PeeringProgress(v))

FairSpec == Spec /\ Fairness
----------------------------------------------------------------------------
(* Properties.                                                             *)

\* The documentation of CreateNetwork: "create a VPC with CIDR block and tag
\* it, if a VPC does not exist" (cluster_network_provider.go:142-144).  Also checks the types.
AtMostOneVpc == TypeOK /\ Cardinality(Live) <= 1

\* When the last CR has gone, so has the network (provider_postgres.go:604-634
\* and its twin in provider_redis.go): nothing is left that could delete it.
NetworkGoesWithLastCR ==
  (\A r \in Resources : cr[r] = "none" /\ w[r].pc = "idle") =>
    Live = {} /\ croute.state = "none" /\ \A g \in Groups : group[g] = NoVpc

\* At most one worker takes the network down, and there is no other CR with an
\* older claim to it: IsLastResource counts the CRs that are being deleted too
\* (provider.go:72-90), and these stay until their own teardown is over.
TeardownIsExclusive ==
  \A q, r \in Resources :
    w[q].last /\ w[r].last /\ {w[q].pc, w[r].pc} \subseteq TeardownSteps => q = r

\* The cluster reaches the instance and gets an answer.
Reachable(r) ==
  LET v == inst[r].at IN
  /\ v # NoVpc
  /\ inst[r].sg /\ ~inst[r].going
  /\ net[v].sg = "open" /\ net[v].peer = "active" /\ net[v].route = "live"
  /\ croute = [to |-> v, state |-> "live"]

\* Once it is reachable, an instance stays so while its CR lives: reconciles
\* leave alone what they find in place, and the deletion of one CR does not
\* take the network from another (isLastResource, provider_postgres.go:605).
NeverCutOff ==
  [][\A r \in Resources :
       Reachable(r) /\ cr[r] = "held" /\ cr'[r] = "held" => Reachable(r)']_vars

\* A live CR's instance is reachable in the end: every reconcile repairs what
\* is missing of the network ("ensuring the following are present",
\* cluster_network_provider.go:243-248), also after another CR's deletion has
\* just taken it down.  (After a failed call of that teardown a route may be
\* left that leads nowhere, and counts as present.)
ConnectionCompletes ==
  \A r \in Resources : cr[r] = "held" ~> (Reachable(r) \/ cr[r] # "held" \/ faults > 0)

\* A deletion ends when no call fails (README.md:349: "Deletion of a custom
\* resource should result in the deletion of the resource in the
\* cloud-provider").  A call that fails between the VPC and its peering, or
\* after the peering was deleted, can block the teardown for good.
TeardownCompletes ==
  \A r \in Resources : cr[r] = "deleting" ~> (cr[r] = "none" \/ faults > 0)
============================================================================
