----------------------------- MODULE GCPSnapshot -----------------------------
(***************************************************************************)
(* Snapshots of Cloud SQL instances: exports into a bucket that is shared  *)
(* by the snapshots of the instance                                        *)
(* (pkg/providers/gcp/provider_postgressnapshot.go), and the scheduled     *)
(* snapshots that the Postgres worker creates and expires                  *)
(* (reconcileCloudSqlInstanceSnapshots in pkg/providers/gcp/               *)
(* provider_postgres.go) at the same time.                                 *)
(***************************************************************************)
EXTENDS SnapshotReconciler

OnGCP(l) == kind = "cloudsql" /\ At(l)
Objects == {s \in Snaps : img[s] = "available"}
SameCR == UNCHANGED <<cr, rest>>

\* getLatestPostgresSnapshot: the newest CR whose phase is complete, whether
\* or not it is being deleted.
LatestPostgresSnapshot ==
  LET complete == {s \in Existing : cr[s].complete}
  IN IF complete = {} THEN None
     ELSE CHOOSE s \in complete : \A t \in complete : t <= s
----------------------------------------------------------------------------
(* Creation.                                                               *)

\* Seeded fault: the object that does not exist yet is an error.
GetObjectMetadata_AbsentIsError ==
  /\ OnGCP("meta")
  /\ Goto(IF img[w.s] = "available" THEN "skip" ELSE "failed")
  /\ SameCR /\ UNCHANGED cloud

\* The object is the snapshot; without it the Postgres CR must be complete.
GetObjectMetadata ==
  /\ OnGCP("meta")
  /\ Goto(CASE img[w.s] = "available" -> "skip"
            [] img[w.s] # "available" /\ w.par = "complete" -> "bucket"
            [] OTHER -> "failed")
  /\ SameCR /\ UNCHANGED cloud

CreateBucket ==
  /\ OnGCP("bucket")
  /\ bucket' = TRUE
  /\ Reply("export")
  /\ SameCR /\ UNCHANGED <<img, exp>>

\* An export begins; the conflict with an operation that is already running
\* is no error.
Export ==
  /\ exp' = IF exp = None THEN w.s ELSE exp
  /\ Note("exported twice", exp = None /\ img[w.s] = "available")

\* Seeded fault: the export that was asked for counts as done.
ExportDatabase_NotAwaited ==
  /\ OnGCP("export")
  /\ IF bucket
     THEN Export /\ Reply("complete")
     ELSE Goto("failed") /\ UNCHANGED <<exp, history>>
  /\ UNCHANGED <<cr, img, bucket, kind, parent, schedule, calm>>

\* GetInstance and the bucket's policy come before the export.
ExportDatabase ==
  /\ OnGCP("export")
  /\ IF bucket
     THEN Export /\ Reply("progress")
     ELSE Goto("failed") /\ UNCHANGED <<exp, history>>
  /\ UNCHANGED <<cr, img, bucket, kind, parent, schedule, calm>>

\* The latest snapshot is protected, and the others lose their protection
\* once the one that was listed has it.
ReconcileSkipDelete ==
  /\ OnGCP("skip")
  /\ LET l == LatestPostgresSnapshot
     IN w' = [w EXCEPT !.latest = l,
                       !.clear = l # None /\ cr[l].skip,
                       !.pc = CASE l = None -> "complete"
                                [] l = w.s -> "protect"
                                [] OTHER -> "others"]
  /\ SameCR /\ UNCHANGED cloud

Protect ==
  /\ OnGCP("protect")
  /\ Store([cr[w.s] EXCEPT !.skip = TRUE], "others")

ListOthers ==
  /\ OnGCP("others")
  /\ w' = IF w.clear THEN [w EXCEPT !.pc = "clear", !.todo = Existing \ {w.latest}]
                     ELSE [w EXCEPT !.pc = "complete"]
  /\ SameCR /\ UNCHANGED cloud

\* One Update per CR, with the copy just listed: the worker's own copy of its
\* CR is outdated when that one changes.
ClearOther ==
  /\ OnGCP("clear")
  /\ \/ w.todo = {} /\ Goto("complete") /\ UNCHANGED cr
     \/ \E t \in w.todo :
          /\ \A u \in w.todo : t <= u
          /\ IF Stored(t)
             THEN /\ cr' = [cr EXCEPT ![t].skip = FALSE]
                  /\ w' = [w EXCEPT !.todo = @ \ {t},
                                    !.fresh = @ /\ ~(t = w.s /\ cr[t].skip)]
             ELSE Goto("failed") /\ UNCHANGED cr
  /\ UNCHANGED <<cloud, rest>>
----------------------------------------------------------------------------
(* Deletion.                                                               *)

\* An object that does not exist is an error.
DeleteObject ==
  /\ OnGCP("d_object")
  /\ IF w.par # "new" /\ img[w.s] = "available"
     THEN img' = [img EXCEPT ![w.s] = "absent"] /\ Reply("d_list")
     ELSE Goto("failed") /\ UNCHANGED img
  /\ SameCR /\ UNCHANGED <<bucket, exp>>

ListObjects ==
  /\ OnGCP("d_list")
  /\ Goto(CASE w.s \in Objects -> "delprog"
            [] Objects = {} -> IF bucket THEN "d_bucket" ELSE "failed"
            [] OTHER -> "d_fin")
  /\ SameCR /\ UNCHANGED cloud

\* GCS keeps a bucket that is not empty.
DeleteBucket ==
  /\ OnGCP("d_bucket")
  /\ IF bucket /\ Objects = {}
     THEN bucket' = FALSE /\ Reply("d_fin")
     ELSE Goto("failed") /\ UNCHANGED bucket
  /\ SameCR /\ UNCHANGED <<img, exp>>
----------------------------------------------------------------------------
(* The scheduled snapshots, and Google Cloud.                              *)

Scheduler ==
  /\ kind = "cloudsql"
  /\ UNCHANGED <<kind, parent, cloud, old, history, calm>>

\* Seeded fault: the latest snapshot expires like the others.
ListSnapshots_LatestToo ==
  /\ Scheduler
  /\ ~sch.busy
  /\ parent \in {"progress", "complete"}
  /\ \/ Existing = {} /\ NewSnapshot /\ UNCHANGED sch
     \/ /\ LatestPostgresSnapshot # None
        /\ sch' = [busy |-> TRUE, list |-> Existing \cap old]
        /\ UNCHANGED cr
  /\ UNCHANGED w

\* Lists the snapshots once the instance has been reconciled.  The first is
\* created at once; when one is complete, all but the latest complete one
\* whose retention has expired are to be deleted.
ListSnapshots ==
  /\ Scheduler
  /\ ~sch.busy
  /\ parent \in {"progress", "complete"}
  /\ \/ Existing = {} /\ NewSnapshot /\ UNCHANGED sch
     \/ /\ LatestPostgresSnapshot # None
        /\ sch' = [busy |-> TRUE, list |-> (Existing \cap old) \ {LatestPostgresSnapshot}]
        /\ UNCHANGED cr
  /\ UNCHANGED w

\* Client.Delete; a CR that is gone is an error, which ends the reconcile.
ExpireSnapshot ==
  /\ Scheduler
  /\ \E s \in sch.list :
       IF Stored(s)
       THEN Delete(s) /\ Outdates(s) /\ sch' = [sch EXCEPT !.list = @ \ {s}]
       ELSE sch' = NoSchedule /\ UNCHANGED <<cr, w>>

\* The next snapshot is due some time after the newest.
ScheduleSnapshot ==
  /\ Scheduler
  /\ sch.busy /\ sch.list = {}
  /\ sch' = NoSchedule
  /\ NewSnapshot \/ UNCHANGED cr
  /\ UNCHANGED w

\* A call of the Postgres worker fails, or its process dies.
ScheduleFails ==
  /\ sch.busy
  /\ ~calm
  /\ sch' = NoSchedule
  /\ UNCHANGED <<kind, parent, cr, w, cloud, old, history, calm>>

\* Older CRs expire first.
RetentionEnds ==
  /\ kind = "cloudsql"
  /\ \E s \in Snaps :
       /\ cr[s].life # "none" /\ s \notin old /\ \A t \in Snaps : t < s => t \in old
       /\ old' = old \cup {s}
       /\ Note("schedule disturbed", Stored(s) /\ ~cr[s].complete)
  /\ UNCHANGED <<kind, parent, cr, w, cloud, sch, calm>>

\* The export writes its object; without the bucket, or when it fails, it
\* ends without one.
ExportEnds ==
  /\ kind = "cloudsql" /\ exp # None
  /\ exp' = None
  /\ \/ bucket /\ img' = [img EXCEPT ![exp] = "available"]
     \/ (~bucket \/ ~calm) /\ UNCHANGED img
  /\ SameCR /\ UNCHANGED <<w, bucket>>

GCPWorker ==
  \/ GetObjectMetadata \/ CreateBucket \/ ExportDatabase \/ ReconcileSkipDelete
  \/ Protect \/ ListOthers \/ ClearOther \/ DeleteObject \/ ListObjects \/ DeleteBucket

PostgresWorker ==
  \/ ListSnapshots \/ ExpireSnapshot \/ ScheduleSnapshot
============================================================================
