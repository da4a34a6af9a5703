----------------------------- MODULE GCPNetwork -----------------------------
(***************************************************************************)
(* The network that the Postgres and Redis CRs of a cluster share on GCP:  *)
(* a global address range, a service connection that uses it, and the      *)
(* peering of the cluster's VPC that GCP makes with the connection         *)
(* (pkg/providers/gcp/cluster_network_provider.go).  A live CR creates     *)
(* what is missing before it creates its instance; the CR that finds       *)
(* itself the last one takes everything down before it gives up its        *)
(* finalizer.                                                              *)
(*                                                                         *)
(* Each CR has a worker, and nothing but GCP orders the workers' calls.    *)
(* Of an instance only matters here that it exists.                        *)
(***************************************************************************)
CONSTANT Resources    \* the Postgres and Redis CRs

VARIABLES
  cr,       \* "none", "new", "held" (with the finalizer) or "deleting"
  w,        \* the workers: the next call, and what IsLastResource returned
  addr,     \* the address range
  svc,      \* the service connection
  peer,     \* the VPC has the peering
  inst,     \* the instance of each CR
  raced,    \* history: see Races
  calm      \* no more faults and no more new CRs from now on

net == <<addr, svc, peer>>
vars == <<cr, w, net, inst, raced, calm>>

CreateSteps == {"range", "insert", "service", "connect", "instance"}
DeleteSteps ==
  {"last", "d_inst", "d_peer", "d_svc", "d_range", "d_address", "d_exist", "d_fin"}

Idle == [pc |-> "idle", last |-> FALSE]
NoNetwork == addr = "absent" /\ svc = "absent" /\ ~peer

TypeOK ==
  /\ cr \in [Resources -> {"none", "new", "held", "deleting"}]
  /\ w \in [Resources ->
              [pc : {"idle"} \cup CreateSteps \cup DeleteSteps, last : BOOLEAN]]
  /\ addr \in {"absent", "reserving", "reserved"}
  /\ svc \in {"absent", "creating", "present", "deleting"}
  /\ peer \in BOOLEAN
  /\ inst \in [Resources -> {"absent", "up", "deleting"}]
  /\ raced \in BOOLEAN
  /\ calm \in BOOLEAN

Init ==
  /\ cr = [r \in Resources |-> "none"]
  /\ w = [r \in Resources |-> Idle]
  /\ addr = "absent" /\ svc = "absent" /\ peer = FALSE
  /\ inst = [r \in Resources |-> "absent"]
  /\ raced = FALSE
  /\ calm = FALSE
----------------------------------------------------------------------------
At(r, l) == w[r].pc = l

\* The reconcile goes to label l, or returns and is requeued.
Goto(r, l) == w' = [w EXCEPT ![r] = IF l = "idle" THEN Idle ELSE [@ EXCEPT !.pc = l]]
Return(r) == Goto(r, "idle")

\* The call took effect; its answer arrives, or is lost and ends the reconcile.
Reply(r, l) == Goto(r, l) \/ (~calm /\ Return(r))

Quiet == UNCHANGED <<cr, raced, calm>>
OnlyWorker == Quiet /\ UNCHANGED <<net, inst>>

\* getServiceConnection lists a connection once it has been made.
Listed == svc \in {"present", "deleting"}

\* Get of the CR; CreateFinalizer before anything is created for it.
Reconcile(r) ==
  /\ At(r, "idle")
  /\ cr[r] # "none"
  /\ Goto(r, IF cr[r] = "deleting" THEN "last" ELSE "range")
  /\ cr' = [cr EXCEPT ![r] = IF @ = "new" THEN "held" ELSE @]
  /\ UNCHANGED <<net, inst, raced, calm>>
----------------------------------------------------------------------------
(* Creation.                                                               *)

CreateNetworkIpRange(r) ==
  /\ At(r, "range")
  /\ Goto(r, IF addr = "absent" THEN "insert" ELSE "service")
  /\ OnlyWorker

\* The range that validateCidrBlock accepts is inserted under a fixed name:
\* a second Insert is refused.  Either way the rest is left to the next
\* reconcile.
CreateAddressRange(r) ==
  /\ At(r, "insert")
  /\ addr' = IF addr = "absent" THEN "reserving" ELSE addr
  /\ Return(r)
  /\ Quiet /\ UNCHANGED <<svc, peer, inst>>

\* Seeded fault: the connection is created only on a range that is in use.
CreateNetworkService_WaitsForUse(r) ==
  /\ At(r, "service")
  /\ IF Listed THEN Goto(r, "instance") ELSE Return(r)
  /\ OnlyWorker

CreateNetworkService(r) ==
  /\ At(r, "service")
  /\ CASE Listed -> Goto(r, "instance")
       [] ~Listed /\ addr = "reserved" -> Goto(r, "connect")
       [] OTHER -> Return(r)
  /\ OnlyWorker

\* Refused without the range and when there is a connection already.
CreateServiceConnection(r) ==
  /\ At(r, "connect")
  /\ svc' = IF svc = "absent" /\ addr = "reserved" THEN "creating" ELSE svc
  /\ Return(r)
  /\ Quiet /\ UNCHANGED <<addr, peer, inst>>

\* GCP refuses an instance with a private address without the connection.
CreateInstance(r) ==
  /\ At(r, "instance")
  /\ inst' = [inst EXCEPT ![r] = IF @ = "absent" /\ svc = "present" THEN "up" ELSE @]
  /\ Return(r)
  /\ Quiet /\ UNCHANGED net
----------------------------------------------------------------------------
(* Deletion.                                                               *)

\* Seeded fault: only the Postgres or only the Redis CRs are counted.
IsLastResource_OneKind(r) ==
  /\ At(r, "last")
  /\ w' = [w EXCEPT ![r] = [pc |-> "d_inst", last |-> TRUE]]
  /\ OnlyWorker

\* Seeded fault: the CR is last when there is none, not when there is one.
IsLastResource_OffByOne(r) ==
  /\ At(r, "last")
  /\ w' = [w EXCEPT ![r] = [pc |-> "d_inst", last |-> \A q \in Resources : cr[q] = "none"]]
  /\ OnlyWorker

\* Lists the CRs of both kinds, those being deleted included.
IsLastResource(r) ==
  /\ At(r, "last")
  /\ w' = [w EXCEPT ![r] =
             [pc |-> "d_inst", last |-> \A q \in Resources \ {r} : cr[q] = "none"]]
  /\ OnlyWorker

DeleteInstance(r) ==
  /\ At(r, "d_inst")
  /\ IF inst[r] = "absent"
     THEN Goto(r, IF w[r].last THEN "d_peer" ELSE "d_fin") /\ UNCHANGED inst
     ELSE Return(r) /\ inst' = [inst EXCEPT ![r] = "deleting"]
  /\ Quiet /\ UNCHANGED net

\* Seeded fault: the peering is left to the removal of the connection.
DeleteNetworkPeering_Skipped(r) ==
  /\ At(r, "d_peer")
  /\ Goto(r, "d_svc")
  /\ OnlyWorker

DeleteNetworkPeering(r) ==
  /\ At(r, "d_peer")
  /\ peer' = FALSE
  /\ Reply(r, "d_svc")
  /\ Quiet /\ UNCHANGED <<addr, svc, inst>>

\* ConnectionsDelete is refused while instances use the connection; unless
\* its operation is done at once it is an error, and the reconcile ends.
DeleteNetworkService(r) ==
  /\ At(r, "d_svc")
  /\ \/ ~Listed /\ Goto(r, "d_range") /\ UNCHANGED svc
     \/ Listed /\ Return(r) /\ UNCHANGED svc /\ \E q \in Resources : inst[q] # "absent"
     \/ /\ Listed /\ \A q \in Resources : inst[q] = "absent"
        /\ \/ svc' = "deleting" /\ Return(r)
           \/ ~peer /\ svc' = "absent" /\ Reply(r, "d_range")
  /\ Quiet /\ UNCHANGED <<addr, peer, inst>>

\* The range is kept while a connection uses it.
DeleteNetworkIpRange(r) ==
  /\ At(r, "d_range")
  /\ CASE addr = "absent" -> Goto(r, "d_exist")
       [] addr # "absent" /\ Listed -> Return(r)
       [] OTHER -> Goto(r, "d_address")
  /\ OnlyWorker

\* GCP refuses to delete a range that a connection is just being made on.
DeleteAddressRange(r) ==
  /\ At(r, "d_address")
  /\ IF svc = "creating"
     THEN Return(r) /\ UNCHANGED addr
     ELSE Reply(r, "d_exist") /\ addr' = "absent"
  /\ Quiet /\ UNCHANGED <<svc, peer, inst>>

ComponentsExist(r) ==
  /\ At(r, "d_exist")
  /\ IF addr # "absent" \/ Listed THEN Return(r) ELSE Goto(r, "d_fin")
  /\ OnlyWorker

RemoveFinalizer(r) ==
  /\ At(r, "d_fin")
  /\ cr' = [cr EXCEPT ![r] = "none"]
  /\ Return(r)
  /\ UNCHANGED <<net, inst, raced, calm>>
----------------------------------------------------------------------------
(* The environment.                                                        *)

\* A call fails without effect, or the operator process dies.
CallFails(r) ==
  /\ ~At(r, "idle")
  /\ ~calm
  /\ Return(r)
  /\ OnlyWorker

\* What IsLastResource does not allow for: a CR created or deleted while
\* another is being deleted, and a CR that counted as another one but is
\* deleted before its first reconcile.
Races(r) ==
  \/ \E q \in Resources \ {r} : cr[q] = "deleting"
  \/ cr[r] = "new" /\ \A q \in Resources \ {r} : cr[q] = "none"

\* A clean slate ends the history of races.
UserCreates(r) ==
  /\ ~calm
  /\ cr[r] = "none" /\ At(r, "idle")
  /\ cr' = [cr EXCEPT ![r] = "new"]
  /\ raced' = (Races(r) \/
                   (raced /\ ~(NoNetwork /\ \A q \in Resources : cr[q] = "none")))
  /\ UNCHANGED <<w, net, inst, calm>>

UserDeletes(r) ==
  /\ cr[r] \in {"new", "held"}
  /\ cr' = [cr EXCEPT ![r] = IF @ = "new" THEN "none" ELSE "deleting"]
  /\ raced' = (raced \/ Races(r))
  /\ UNCHANGED <<w, net, inst, calm>>

CalmDown ==
  /\ ~calm
  /\ calm' = TRUE
  /\ UNCHANGED <<cr, w, net, inst, raced>>

\* GCP finishes what it has begun.  A connection whose peering is still there
\* is stuck in its deletion.
CloudProgress ==
  /\ \/ addr = "reserving" /\ addr' = "reserved" /\ UNCHANGED <<svc, peer, inst>>
     \/ svc = "creating" /\ svc' = "present" /\ peer' = TRUE /\ UNCHANGED <<addr, inst>>
     \/ svc = "deleting" /\ ~peer /\ svc' = "absent" /\ UNCHANGED <<addr, peer, inst>>
     \/ /\ \E r \in Resources :
             inst[r] = "deleting" /\ inst' = [inst EXCEPT ![r] = "absent"]
        /\ UNCHANGED net
  /\ UNCHANGED <<cr, w, raced, calm>>

Worker(r) ==
  \/ Reconcile(r) \/ CreateNetworkIpRange(r) \/ CreateAddressRange(r)
  \/ CreateNetworkService(r) \/ CreateServiceConnection(r) \/ CreateInstance(r)
  \/ IsLastResource(r) \/ DeleteInstance(r) \/ DeleteNetworkPeering(r)
  \/ DeleteNetworkService(r) \/ DeleteNetworkIpRange(r) \/ DeleteAddressRange(r)
  \/ ComponentsExist(r) \/ RemoveFinalizer(r)

Next ==
  \/ \E r \in Resources : Worker(r) \/ CallFails(r) \/ UserCreates(r) \/ UserDeletes(r)
  \/ CloudProgress
  \/ CalmDown

Spec == Init /\ [][Next]_vars

\* Requeued reconciles, the cloud's operations, and faults that stop.
Fairness ==
  /\ \A r \in Resources : WF_vars(Worker(r))
  /\ WF_vars(CloudProgress)
  /\ WF_vars(CalmDown)

FairSpec == Spec /\ Fairness
----------------------------------------------------------------------------
(* Properties.                                                             *)

\* Deletions that follow one another (no Races) leave nothing behind: once the last CR
\* is gone, so are the address range, the connection and the peering that the
\* CRs shared (IsLastResource and the teardown in deleteCloudSQLInstance and
\* deleteRedisInstance).  Two last CRs deleted at the same time each see the
\* other, and both leave the network: such cases are what raced excludes.
\* Also checks the types.
NetworkGoesWithLastCR ==
  /\ TypeOK
  /\ ~raced /\ (\A r \in Resources : cr[r] = "none") => NoNetwork

\* An instance is never cut off from the cluster by the teardown for another
\* CR, nor put on a network that lacks a part, as long as no CR is created
\* while another is being deleted.
InstanceKeepsNetwork ==
  ~raced => \A r \in Resources :
                inst[r] = "up" => addr = "reserved" /\ svc = "present" /\ peer

\* Whatever raced, every deletion comes to its end: the connection is
\* never stuck behind a peering that DeleteNetworkPeering should have removed
\* before it.
DeletionCompletes ==
  \A r \in Resources : (cr[r] = "deleting") ~> (cr[r] = "none")

\* Without races a live CR gets its instance, though its reconciles return
\* three times before the network is complete.  (After a race it may wait for
\* ever on a connection whose deletion another CR has begun.)
InstanceCreated ==
  \A r \in Resources :
    (cr[r] = "held" /\ ~raced) ~> (inst[r] = "up" \/ cr[r] # "held" \/ raced)
============================================================================
