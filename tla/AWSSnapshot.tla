----------------------------- MODULE AWSSnapshot -----------------------------
(***************************************************************************)
(* Snapshots of RDS instances and of ElastiCache replication groups        *)
(* (pkg/providers/aws/provider_postgressnapshot.go and                     *)
(* provider_redissnapshot.go).                                             *)
(***************************************************************************)
EXTENDS SnapshotReconciler

OnAWS(l) == kind # "cloudsql" /\ At(l)
NoCR == UNCHANGED <<cr, bucket, exp, rest>>

\* DescribeDBSnapshots or DescribeSnapshots by name; an RDS snapshot is not
\* begun while the Postgres CR is in progress, nor while it is deleted.
FindSnapshotInstance ==
  /\ OnAWS("find")
  /\ LET l == CASE kind = "elasticache" -> "group"
                [] kind = "rds" /\ img[w.s] = "available" -> "complete"
                [] kind = "rds" /\ img[w.s] \in {"creating", "deleting"} -> "progress"
                [] kind = "rds" /\ img[w.s] = "absent" /\ w.par = "progress" -> "progress"
                [] kind = "rds" /\ img[w.s] = "absent" /\ w.par = "deleting" -> "failed"
                [] OTHER -> "create"
     IN w' = [w EXCEPT !.pc = l, !.seen = img[w.s]]
  /\ NoCR /\ UNCHANGED img

\* The first replication group of the answer is read without looking at the
\* error: when there is none, the operator panics and is restarted.
DescribeReplicationGroups ==
  /\ OnAWS("group")
  /\ Goto(CASE parent \in {"new", "starting", "gone"} -> "idle"
            [] parent = "complete" /\ w.seen = "absent" -> "create"
            [] parent = "complete" /\ w.seen = "available" -> "complete"
            [] OTHER -> "progress")
  /\ NoCR /\ UNCHANGED img

\* CreateDBSnapshot or CreateSnapshot, refused unless the database is available.
CreateSnapshot ==
  /\ OnAWS("create")
  /\ \/ parent = "complete" /\ img[w.s] = "absent"
        /\ img' = [img EXCEPT ![w.s] = "creating"] /\ Reply("progress")
     \/ ~(parent = "complete" /\ img[w.s] = "absent") /\ Goto("failed") /\ UNCHANGED img
  /\ NoCR

\* A CR without a snapshotID names no snapshot.
FindForDelete ==
  /\ OnAWS("d_find")
  /\ Goto(IF cr[w.s].id /\ img[w.s] # "absent" THEN "d_image" ELSE "d_fin")
  /\ NoCR /\ UNCHANGED img

\* Seeded fault: the finalizer is given up once the deletion has begun.
DeleteSnapshot_NotAwaited ==
  /\ OnAWS("d_image")
  /\ \/ img[w.s] = "available" /\ img' = [img EXCEPT ![w.s] = "deleting"] /\ Reply("d_fin")
     \/ img[w.s] # "available" /\ Goto("d_fin") /\ UNCHANGED img
  /\ NoCR

\* DeleteDBSnapshot or DeleteSnapshot, refused unless the snapshot is available.
DeleteSnapshot ==
  /\ OnAWS("d_image")
  /\ \/ img[w.s] = "available" /\ img' = [img EXCEPT ![w.s] = "deleting"] /\ Reply("delprog")
     \/ img[w.s] # "available" /\ Goto("failed") /\ UNCHANGED img
  /\ NoCR

\* AWS finishes what it has begun.
SnapshotProgress ==
  /\ kind # "cloudsql"
  /\ \E s \in Snaps :
       \/ img[s] = "creating" /\ img' = [img EXCEPT ![s] = "available"]
       \/ img[s] = "deleting" /\ img' = [img EXCEPT ![s] = "absent"]
  /\ NoCR /\ UNCHANGED w

\* A snapshot is deleted from AWS by hand.
SnapshotLost ==
  /\ kind # "cloudsql"
  /\ ~calm
  /\ \E s \in Snaps :
       /\ img[s] = "available"
       /\ img' = [img EXCEPT ![s] = "absent"]
  /\ history' = history \cup {"snapshot lost"}
  /\ UNCHANGED <<kind, parent, cr, w, bucket, exp, schedule, calm>>

AWSWorker ==
  \/ FindSnapshotInstance \/ DescribeReplicationGroups \/ CreateSnapshot
  \/ FindForDelete \/ DeleteSnapshot
============================================================================
