---------------------------- MODULE ElastiCache ----------------------------
(***************************************************************************)
(* The Redis CR on AWS: CreateRedis and DeleteRedis of                     *)
(* pkg/providers/aws/provider_redis.go over one ElastiCache replication    *)
(* group.  The network that CreateRedis sets up and the last DeleteRedis   *)
(* tears down is the subject of StandaloneNetwork; here only its errors    *)
(* are seen (CallFails).                                                   *)
(***************************************************************************)
EXTENDS Reconciler

\* VerifyRedisMaintenanceWindow is a Get of its own: the flag can be newer
\* than the worker's copy.
VerifyRedisMaintenanceWindow ==
  /\ At("elasticache", "window")
  /\ cr.life # "gone"
  /\ pc' = "get"
  /\ loc' = [loc EXCEPT !.win = cr.mw]
  /\ NotCR /\ UNCHANGED world

\* DescribeReplicationGroups, polled, and the search by identifier; also the
\* defaults of buildElasticacheCreateStrategy, which change nothing.
GetReplicationGroups ==
  /\ At("elasticache", "get")
  /\ pc' = "decide"
  /\ loc' = [loc EXCEPT !.seen = View]
  /\ NotCR /\ UNCHANGED world

\* The CR says that a group was provisioned, but there is none.
GroupLost ==
  /\ At("elasticache", "decide")
  /\ loc.seen.state = "absent"
  /\ loc.anno
  /\ Branch("failed")

CreateReplicationGroup ==
  /\ At("elasticache", "decide")
  /\ loc.seen.state = "absent"
  /\ ~loc.anno
  /\ inst.state = "absent"
  /\ inst' = [NoInstance EXCEPT !.state = "creating"]
  /\ Reply("annotate_new")
  /\ NotCR /\ UNCHANGED <<sec, objs, result>>

AnnotateGroup ==
  /\ At("elasticache", "annotate_new")
  /\ Store([cr EXCEPT !.anno = TRUE], "progress")

GroupNotAvailable ==
  /\ At("elasticache", "decide")
  /\ loc.seen.state \notin {"absent", "available"}
  /\ Branch("progress")

\* Only in a maintenance window is the group compared with the strategy.
GroupAvailable ==
  /\ At("elasticache", "decide")
  /\ loc.seen.state = "available"
  /\ Branch(IF loc.win /\ loc.seen.drift THEN "modify" ELSE "updates")

\* ElastiCache takes the differences to apply them at once or later; the
\* reconcile goes on with the group as it was found before.
ModifyReplicationGroup ==
  /\ At("elasticache", "modify")
  /\ inst.state = "available"
  /\ \E s \in {"available", "modifying"} :
       inst' = [inst EXCEPT !.state = s, !.drift = FALSE]
  /\ Reply("updates")
  /\ NotCR /\ UNCHANGED <<sec, objs, result>>

\* The service updates that the strategy names and ElastiCache still offers
\* are applied, in a maintenance window or not.
ApplySpecifiedSecurityUpdates ==
  /\ At("elasticache", "updates")
  /\ \/ Goto("tag") /\ UNCHANGED inst
     \/ /\ ~calm /\ inst.state = "available"
        /\ inst' = [inst EXCEPT !.state = "modifying"]
        /\ Reply("tag")
  /\ NotCR /\ UNCHANGED <<sec, objs, result>>

\* ElastiCache refuses a call that its state has overtaken since the listing.
RefusedByElastiCache ==
  /\ prov = "elasticache"
  /\ \/ /\ pc = "decide" /\ loc.seen.state = "absent" /\ ~loc.anno
        /\ inst.state # "absent"
     \/ pc = "modify" /\ inst.state # "available"
     \/ /\ pc = "d_decide" /\ loc.seen.state = "available"
        /\ inst.state \notin {"absent", "available"}
  /\ Branch("failed")

\* Without STS the nodes and snapshots are tagged; a node group that is not
\* available yet ends the reconcile.
TagNodes ==
  /\ At("elasticache", "tag")
  /\ \/ Branch("close")
     \/ ~calm /\ Branch("progress")

\* Seeded fault: the CR is read again, so that a window which the user opened
\* after the group was compared is closed as well.
CloseWindow_RereadsCR ==
  /\ At("elasticache", "close")
  /\ cr.mw
  /\ cr.life = "live"
  /\ cr' = [cr EXCEPT !.mw = FALSE]
  /\ Goto("publish")
  /\ UNCHANGED <<prov, fresh, world, calm>>

CloseWindow ==
  /\ At("elasticache", "close")
  /\ loc.win
  /\ Store([cr EXCEPT !.mw = FALSE], "publish")

NoWindow ==
  /\ At("elasticache", "close")
  /\ ~loc.win
  /\ Branch("publish")
----------------------------------------------------------------------------
(* DeleteRedis.                                                            *)

GetGroupForDelete ==
  /\ At("elasticache", "d_get")
  /\ pc' = "d_decide"
  /\ loc' = [loc EXCEPT !.seen = View]
  /\ NotCR /\ UNCHANGED world

DeleteWaitsForGroup ==
  /\ At("elasticache", "d_decide")
  /\ loc.seen.state \notin {"absent", "available"}
  /\ Branch("delprog")

\* The error "not found" is taken for success.
DeleteReplicationGroup ==
  /\ At("elasticache", "d_decide")
  /\ loc.seen.state = "available"
  /\ \/ /\ inst.state = "available"
        /\ inst' = [inst EXCEPT !.state = "deleting"]
        /\ Reply("delprog")
     \/ inst.state = "absent" /\ Goto("delprog") /\ UNCHANGED inst
  /\ NotCR /\ UNCHANGED <<sec, objs, result>>

\* The network goes with its last user (StandaloneNetwork), then the finalizer.
GroupGone ==
  /\ At("elasticache", "d_decide")
  /\ loc.seen.state = "absent"
  /\ Branch("d_fin")

ElastiCacheWorker ==
  \/ VerifyRedisMaintenanceWindow \/ GetReplicationGroups \/ GroupLost
  \/ CreateReplicationGroup \/ AnnotateGroup \/ GroupNotAvailable \/ GroupAvailable
  \/ ModifyReplicationGroup \/ ApplySpecifiedSecurityUpdates
  \/ RefusedByElastiCache \/ TagNodes \/ CloseWindow \/ NoWindow
  \/ GetGroupForDelete \/ DeleteWaitsForGroup \/ DeleteReplicationGroup \/ GroupGone
============================================================================
