----------------------------- MODULE Providers -----------------------------
(***************************************************************************)
(* The Postgres, Redis and BlobStorage controllers with their providers:   *)
(* ElastiCache, Memorystore, Cloud SQL, OpenShift and S3 (RDS has a module *)
(* of its own, PostgresRDS).  A behaviour is the life of the CRs of one    *)
(* name, all served by the same provider prov, since the strategy of a     *)
(* deployment type does not change here (ResourceController is about that).*)
(***************************************************************************)
EXTENDS ElastiCache, CloudSQL, Memorystore, OpenShiftWorkload, S3Bucket

CloudProvs == {"elasticache", "memorystore", "cloudsql"}

\* The cloud, or the cluster, finishes what it was asked for.  A database on
\* OpenShift takes its password from the secret when its pod starts.
CloudProgress ==
  /\ \/ /\ inst.state \in {"creating", "modifying"}
        /\ inst' = [inst EXCEPT !.state = "available",
                                !.pw = IF prov = "oc_postgres" THEN sec ELSE @]
     \/ inst.state = "deleting" /\ inst' = NoInstance
  /\ UNCHANGED <<prov, cr, fresh, worker, sec, objs, result, calm>>

\* Changes nobody asked this CR's worker for: maintenance, a new strategy in
\* the config map, a deletion in the console, a pod that restarts, and the
\* deletion of another Redis CR, which takes the config map they share.
OutOfBand ==
  /\ ~calm
  /\ \/ /\ prov \in CloudProvs
        /\ \/ inst.state = "available" /\ inst' = [inst EXCEPT !.state = "modifying"]
           \/ inst.state # "absent" /\ inst' = [inst EXCEPT !.drift = TRUE]
           \/ /\ inst.state # "absent" /\ prov = "memorystore"
              /\ inst' = [inst EXCEPT !.upd = TRUE]
           \/ /\ inst.state \in {"creating", "available"}
              /\ inst' = [inst EXCEPT !.state = "deleting"]
        /\ UNCHANGED objs
     \/ /\ prov \in OpenShiftProvs
        /\ \/ /\ inst.state = "available" /\ inst' = [inst EXCEPT !.state = "creating"]
              /\ UNCHANGED objs
           \/ inst.state # "absent" /\ inst' = NoInstance /\ UNCHANGED objs
           \/ "config" \in objs /\ objs' = objs \ {"config"} /\ UNCHANGED inst
     \/ /\ prov \in S3Provs
        /\ inst.state # "absent" /\ inst' = NoInstance /\ UNCHANGED objs
  /\ UNCHANGED <<prov, cr, fresh, worker, sec, result, calm>>

\* The provider calls of whichever provider serves the CR.
ProviderWorker ==
  \/ ElastiCacheWorker \/ CloudSQLWorker \/ MemorystoreWorker \/ OpenShiftWorker
  \/ S3Worker

Worker == Controller \/ ProviderWorker

\* The user opens the window for a difference that stands, and the account is
\* settled when that difference has been handed to the cloud.
Account ==
  owed' = (/\ inst'.drift /\ cr'.life = "live"
           /\ owed \/ (~cr.mw /\ cr'.mw))

Next ==
  /\ Worker \/ Environment \/ CloudProgress \/ OutOfBand \/ MintKey \/ PutObject
  /\ Account

Spec == Init /\ [][Next]_vars

\* Reconciles are requeued until they succeed, the cloud finishes what it
\* started, the garbage collector runs, and faults end at some time.
Fairness ==
  /\ WF_vars(Worker /\ Account)
  /\ WF_vars(CloudProgress /\ Account)
  /\ WF_vars(MintKey /\ Account)
  /\ WF_vars(CollectGarbage /\ Account)
  /\ WF_vars(CalmDown /\ Account)

FairSpec == Spec /\ Fairness
----------------------------------------------------------------------------
(* Properties.                                                             *)

\* A bucket that holds objects is kept on purpose, unless its deletion is
\* forced; the secret with a bucket's key is the minter's; and the credential
\* secret of the OpenShift provider is left out, because DeletePostgres asks for
\* another name than it was made under (see DeleteSecret).
Made ==
  (IF inst.state # "absent" /\ (prov = "s3_force" \/ ~inst.full)
   THEN {"instance"} ELSE {})
    \cup (IF sec # NoPassword /\ prov = "cloudsql" THEN {"secret"} ELSE {})
    \cup objs

Claim ==
  CASE cr.life = "gone" -> "none"
    [] cr.life = "deleting" -> "released"
    [] cr.life = "live" /\ cr.fin -> "held"
    [] OTHER -> "asked"

Managed == INSTANCE ManagedResource
  WITH Things <- {"instance", "secret"} \cup Objects, claim <- Claim, made <- Made

\* README, Design: "Deletion of a custom resource should result in the
\* deletion of the resource in the cloud-provider".  Each of the providers
\* makes things only for a CR that bears the finalizer, and lets the CR go only
\* when all of them are gone, in every interleaving with crashes, lost answers
\* and users (CreateFinalizer comes first and RemoveFinalizer last).
ImplementsManagedResource == Managed!Spec

\* A CR that reports Complete has published its result secret, and for a
\* database with the password that the database was created with, for a
\* bucket with the key that the minter made for it
\* (aws/provider_blobstorage.go:158-189, aws/credentials.go:197-229,
\* gcp/provider_postgres.go:155-166, openshift/provider_postgres.go:303-325,
\* provider.go:36-70).  Also checks the types.
PublishedSecretWorks ==
  /\ TypeOK
  /\ cr.phase = "complete" =>
       /\ result.life = "owned"
       /\ prov \in S3Provs \ {"s3_sts"} /\ cr.life = "live"
            => result.pw = sec /\ sec # NoPassword
       /\ prov \in PostgresProvs /\ inst.state \notin {"absent", "creating"}
            => result.pw = inst.pw /\ inst.pw # NoPassword

\* spec.maintenanceWindow is reset after the reconcile that used it
\* (aws/provider_redis.go:196-202).  A window that was opened to apply a
\* difference is never closed before that difference went to ElastiCache,
\* although the flag is read, used and reset in three calls.
WindowNotLost ==
  [][cr.mw /\ cr'.life = "live" /\ ~cr'.mw => ~owed]_vars

\* A deletion, once requested, ends.  A Memorystore CR without the annotation
\* is the exception: nothing tells the provider what to delete
\* (gcp/provider_redis.go:428-441).
DeletionCompletes ==
  cr.life = "deleting" /\ (prov = "memorystore" => cr.anno) ~> cr.life = "gone"

\* A live CR is served in the end, unless the user pauses or deletes it or
\* its annotated replication group or bucket has disappeared
\* (aws/provider_redis.go:266, aws/provider_blobstorage.go:423).
ServiceCompletes ==
  cr.life = "live" ~>
    \/ cr.life = "live" /\ cr.phase = "complete"
    \/ cr.life # "live"
    \/ cr.skip
    \/ prov \in {"elasticache"} \cup S3Provs /\ cr.anno /\ inst.state \in {"deleting", "absent"}

\* The secret with a bucket's coordinates is written only after the bucket's
\* settings, also when an earlier reconcile died between CreateBucket and
\* PutPublicAccessBlock (aws/provider_blobstorage.go:411-418, 443-446).
SettingsBeforePublish ==
  prov \in S3Provs /\ pc \in {"publish", "complete"} /\ inst.state # "absent" => inst.prot
============================================================================
