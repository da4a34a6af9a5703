---------------------------- MODULE Memorystore ----------------------------
(***************************************************************************)
(* The Redis CR on GCP: CreateRedis and DeleteRedis of                     *)
(* pkg/providers/gcp/provider_redis.go over one Memorystore instance.      *)
(* inst.drift is a difference that UpdateInstance removes, inst.upd a      *)
(* difference of the Redis version, which needs UpgradeInstance.           *)
(***************************************************************************)
EXTENDS Reconciler

\* CreateNetworkIpRange and CreateNetworkService; a message of theirs ends
\* the reconcile.
RedisNetwork ==
  /\ At("memorystore", "network")
  /\ Branch("get") \/ (~calm /\ Branch("progress"))

GetRedisInstance ==
  /\ At("memorystore", "get")
  /\ pc' = "decide"
  /\ loc' = [loc EXCEPT !.seen = View]
  /\ NotCR /\ UNCHANGED world

\* A missing instance is created, whatever the annotation says.
CreateRedisInstance ==
  /\ At("memorystore", "decide")
  /\ loc.seen.state = "absent"
  /\ \/ /\ inst.state = "absent"
        /\ inst' = [NoInstance EXCEPT !.state = "creating"]
        /\ Reply("annotate_new")
     \/ inst.state # "absent" /\ Goto("failed") /\ UNCHANGED inst
  /\ NotCR /\ UNCHANGED <<sec, objs, result>>

\* CreateOrUpdate of the CR reads it again before the Update, so an outdated
\* copy is no obstacle.
AnnotateNewRedis ==
  /\ At("memorystore", "annotate_new")
  /\ cr.life # "gone"
  /\ cr' = [cr EXCEPT !.anno = TRUE]
  /\ \/ Goto("progress") /\ fresh' = TRUE
     \/ ~calm /\ Goto("failed") /\ fresh' = FALSE
  /\ UNCHANGED <<prov, world, calm>>

RedisInstanceFound ==
  /\ At("memorystore", "decide")
  /\ loc.seen.state # "absent"
  /\ Branch(IF loc.anno THEN "found" ELSE "annotate")

AnnotateFoundRedis ==
  /\ At("memorystore", "annotate")
  /\ Store([cr EXCEPT !.anno = TRUE], "found")

\* Everything but READY is waited for.
RedisInstanceState ==
  /\ At("memorystore", "found")
  /\ Branch(IF loc.seen.state = "available" THEN "modify" ELSE "progress")

UpdateRedisInstance ==
  /\ At("memorystore", "modify")
  /\ \/ ~loc.seen.drift /\ Goto("updates") /\ UNCHANGED inst
     \/ /\ loc.seen.drift /\ inst.state = "available"
        /\ \E s \in {"available", "modifying"} :
             inst' = [inst EXCEPT !.state = s, !.drift = FALSE]
        /\ Reply("updates")
     \/ /\ loc.seen.drift /\ inst.state # "available"
        /\ Goto("failed")
        /\ UNCHANGED inst
  /\ NotCR /\ UNCHANGED <<sec, objs, result>>

UpgradeRedisInstance ==
  /\ At("memorystore", "updates")
  /\ \/ ~loc.seen.upd /\ Goto("publish") /\ UNCHANGED inst
     \/ /\ loc.seen.upd /\ inst.state = "available"
        /\ \E s \in {"available", "modifying"} :
             inst' = [inst EXCEPT !.state = s, !.upd = FALSE]
        /\ Reply("publish")
     \/ /\ loc.seen.upd /\ inst.state # "available"
        /\ Goto("failed")
        /\ UNCHANGED inst
  /\ NotCR /\ UNCHANGED <<sec, objs, result>>
----------------------------------------------------------------------------
(* DeleteRedis.                                                            *)

\* buildDeleteInstanceRequest takes the instance's name from the annotation
\* and from nowhere else; without it the deletion fails.
NoNameToDelete ==
  /\ At("memorystore", "d_get")
  /\ ~loc.anno
  /\ Branch("failed")

GetRedisForDelete ==
  /\ At("memorystore", "d_get")
  /\ loc.anno
  /\ pc' = "d_decide"
  /\ loc' = [loc EXCEPT !.seen = View]
  /\ NotCR /\ UNCHANGED world

RedisAlreadyDeleting ==
  /\ At("memorystore", "d_decide")
  /\ loc.seen.state = "deleting"
  /\ Branch("delprog")

DeleteRedisInstance ==
  /\ At("memorystore", "d_decide")
  /\ loc.seen.state \notin {"absent", "deleting"}
  /\ \/ /\ inst.state = "available"
        /\ inst' = [inst EXCEPT !.state = "deleting"]
        /\ Reply("delprog")
     \/ inst.state # "available" /\ Goto("failed") /\ UNCHANGED inst
  /\ NotCR /\ UNCHANGED <<sec, objs, result>>

RedisInstanceGone ==
  /\ At("memorystore", "d_decide")
  /\ loc.seen.state = "absent"
  /\ Branch("d_network")

\* The last CR waits until its network components are gone (GCPNetwork).
RedisNetworkGone ==
  /\ At("memorystore", "d_network")
  /\ Branch("d_fin") \/ (~calm /\ Branch("delprog"))

MemorystoreWorker ==
  \/ RedisNetwork \/ GetRedisInstance \/ CreateRedisInstance \/ AnnotateNewRedis
  \/ RedisInstanceFound \/ AnnotateFoundRedis \/ RedisInstanceState
  \/ UpdateRedisInstance \/ UpgradeRedisInstance \/ NoNameToDelete
  \/ GetRedisForDelete \/ RedisAlreadyDeleting \/ DeleteRedisInstance
  \/ RedisInstanceGone \/ RedisNetworkGone
============================================================================
