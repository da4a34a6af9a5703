------------------------------ MODULE Snapshots ------------------------------
(***************************************************************************)
(* The snapshot controllers with all their providers.                      *)
(***************************************************************************)
EXTENDS AWSSnapshot, GCPSnapshot

Worker == Controller \/ AWSWorker \/ GCPWorker
CloudProgress == SnapshotProgress \/ ExportEnds

Next ==
  \/ Worker \/ PostgresWorker \/ CloudProgress
  \/ SnapshotLost \/ ScheduleFails \/ RetentionEnds
  \/ Environment

Spec == Init /\ [][Next]_vars

\* Every snapshot CR is requeued, and the queue gives each its turn; what the
\* clouds have begun they finish, and faults stop.
Fairness ==
  /\ WF_vars(Worker)
  /\ \A s \in Snaps : SF_vars(Reconcile(s))
  /\ WF_vars(CloudProgress)
  /\ WF_vars(CalmDown)

FairSpec == Spec /\ Fairness
----------------------------------------------------------------------------
(* Properties.                                                             *)

\* No snapshot outlives its CR, unless spec.skipDelete told
\* deletePostgresSnapshot to leave it.  (An export that is begun a second time
\* while the first ends may write its object after the CR is gone.)
\* Also checks the types.
NoOrphan ==
  /\ TypeOK
  /\ "exported twice" \notin history =>
       \A s \in Snaps :
         cr[s].life \in {"none", "gone"} /\ img[s] # "absent" => cr[s].skip

\* The phase complete is true: as long as the CR is not deleted, its snapshot
\* can be used (the controllers set the phase reconciles after the find),
\* unless somebody deleted it in the cloud.
CompleteIsUsable ==
  \A s \in Snaps :
    cr[s].life = "live" /\ cr[s].complete /\ "snapshot lost" \notin history =>
      img[s] = "available"

\* The expiry of scheduled snapshots in reconcileCloudSqlInstanceSnapshots
\* never takes the last export there is, though it works from a list that the
\* snapshot worker changes meanwhile.  (It may when the schedule is disturbed:
\* a CR that is being deleted still counts as the latest complete one.)
BackupKept ==
  [][kind = "cloudsql" /\ "schedule disturbed" \notin history /\ Objects # {}
       => Objects' # {}]_vars

\* While its parent is there, the deletion of a snapshot CR comes to its end
\* (DeleteDBSnapshot and DeleteSnapshot are refused until the snapshot is
\* available, and tried again); on GCP at least its object does.
DeletionCompletes ==
  \A s \in Snaps :
    (cr[s].life = "deleting") ~>
      \/ cr[s].life = "gone" \/ parent = "gone"
      \/ kind = "cloudsql" /\ (cr[s].skip \/ img[s] = "absent")

\* Of a complete parent every snapshot is taken in the end, though a bucket
\* that another deletion removes makes its export fail.
SnapshotTaken ==
  \A s \in Snaps :
    (cr[s].life = "live" /\ parent = "complete") ~>
      (cr[s].complete \/ cr[s].life # "live" \/ parent # "complete")

\* README.md:349, "Deletion of a custom resource should result in the deletion of the
\* resource in the cloud-provider": so the CR, too, is gone in the end.
CRGoes ==
  \A s \in Snaps :
    (cr[s].life = "deleting") ~> (cr[s].life = "gone" \/ parent = "gone")
============================================================================
